---- MODULE Spec2Model ----
(***************************************************************************)
(* bank-service: the transaction ledger (Deposit / Withdraw / Transfer),   *)
(* credit issuance with its payment schedule, and the settlement sweep     *)
(* (processPendingPayments), over the store of internal/repository.        *)
(*                                                                         *)
(* Money is float64 in the source and a decimal in the store.  The schema  *)
(* is not among the sources; the model takes the money columns as decimals *)
(* of two places (NUMERIC(p, 2)), which is what spec.md calls fixed-point  *)
(* and what every amount the service prints is formatted to.  The model    *)
(* counts what the store holds in mills (1/1000 of a currency unit) as     *)
(* integers, every amount a whole number of cents, and computes what the   *)
(* source computes in float64 (the installment, the penalty, the sum and   *)
(* the comparison of the sweep) in float64.  Dates are day numbers of the  *)
(* calendar.                                                               *)
(*                                                                         *)
(* Every round trip to the database is one step.  Statements issued inside *)
(* a sql.Tx are buffered in txbuf and reach the committed store only when  *)
(* Commit succeeds; statements issued on r.db directly are committed by    *)
(* the step that issues them.  Every round trip may fail.                  *)
(***************************************************************************)
EXTENDS Integers, Sequences, FiniteSets, Bags, TLC

\* ---------------------------------------------------------------- bounds
MaxCalls == 2          \* service calls made by the request goroutines
MaxTriggers == 2       \* firings of the cron entry
MaxTerm == 2           \* largest termMonths a caller asks for
MixCalls == 1          \* service calls beside a sweep (Spec)
MixTriggers == 1       \* firings of the cron entry beside ledger calls (Spec)
MaxText == 17          \* longest string handed to Encrypt, bytes
EntryCalls == 1        \* service calls with arguments of every kind (SpecEntry)
MaxCards == 1          \* cards issued or about to be (SpecCards)
MaxTags == 2           \* credits tagged (SpecTag)

\* ---------------------------------------------------------------- inputs
Clients == {"c1", "c2"}            \* request goroutines
Sweeps == {"s1", "s2"}             \* goroutines the cron entry starts
Procs == Clients \cup Sweeps
Users == {1, 2}
Accounts == {1, 2}                 \* the accounts at the start: account a is user a's
Amounts == {5000, 10000}           \* amounts of ledger calls, mills
Principals == {20000}              \* amounts of credits, mills
KeyRates == {15, 25}               \* what the rate provider answers, percent
Funding == {10000, 25000}          \* what account 1 holds at the start, mills
Today == {366}                     \* the current day: 31 December 2000
TruncateBack == {0, 1}             \* days Truncate(24h) takes a due date back
TextBytes == {1, 16, 48, 52}       \* bytes of the strings handed to Encrypt:
                                   \* 0x01, 0x10, "0", "4"
IVBytes == {0, 200}                \* bytes rand.Read fills an IV with
RandomBytes == {0, 255}            \* bytes rand.Read fills card digits with
BadAmounts == {0, -5000}           \* amounts the validation refuses, mills
BadTerms == {0, 361}               \* terms the validation refuses
LongTerms == {360}                 \* the longest term it accepts
AnnuityPrincipals == {1000 * k : k \in 1..20}   \* principals, mills
AnnualRates == {0, 20, 25, 30}     \* annual rates, percent
TagUsers == {1, 12}                \* borrower ids of the credits tagged
TagAccounts == {1, 2, 21}          \* funding account ids of the credits tagged
TagAmounts == {1000, 11000}        \* principals of the credits tagged: 1.00, 11.00
Limits == {0, 1}                   \* page sizes asked of ListCards
Offsets == {0, 1}                  \* page offsets asked of ListCards

VARIABLES
    balance,        \* bank.accounts.balance: row i has id i
    transactions,   \* bank.transactions: the bag of its rows
    credits,        \* bank.credits: row i has id i
    schedules,      \* bank.payment_schedules: row i has id i
    cards,          \* bank.cards: row i has id i
    now,            \* time.Now(): the calendar date, as a day number
    crypto,         \* a use of utils.Encrypt and utils.Decrypt: arguments and results
    annuity,        \* a use of calculateAnnuityPayment: arguments and result
    tags,           \* uses of the integrity tag of a credit: arguments, bytes hashed, tag
    accounts,       \* bank.accounts.user_id: row i has id i
    pc,             \* where each goroutine is
    req,            \* arguments and locals of the call a request goroutine serves
    legs,           \* the model values a goroutine has still to hand to the repository
    txbuf,          \* statements executed in the goroutine's open sql.Tx
    payments,       \* the slice a sweep got from GetPendingPayments
    idx,            \* position of a sweep's range loop in payments
    calls,          \* service calls started so far
    triggers,       \* firings of the cron entry so far
    opening,        \* the balances at the start
    history         \* completed service calls with their outcome, a bag

store == <<balance, transactions, credits, schedules, cards, now, crypto, annuity, tags, accounts>>
vars == <<balance, transactions, credits, schedules, cards, now, crypto, annuity, tags, accounts, pc, req, legs, txbuf,
          payments, idx, calls, triggers, opening, history>>

NoReq == [op |-> "none", user |-> 0, account |-> 0, to |-> 0, amount |-> 0,
          term |-> 0, quote |-> 0, rate |-> 0, asked |-> 0, id |-> 0,
          limit |-> 0, offset |-> 0, result |-> <<>>]

Request(op, u, a, to, amt, term) ==
    [op |-> op, user |-> u, account |-> a, to |-> to, amount |-> amt,
     term |-> term, quote |-> 0, rate |-> 0, asked |-> 0, id |-> 0,
     limit |-> 0, offset |-> 0, result |-> <<>>]

\* models.Transaction, the fields the callers set; ref is the number the
\* caller formats into Description: the other account of a transfer, the
\* schedule entry of a credit payment, 0 when there is none.
Transaction(account, amount, type, ref) ==
    [account |-> account, amount |-> amount, type |-> type, ref |-> ref]

\* ---------------------------------------------------------------- float64
\* Money is float64 in the source, and the installment and the sweep's
\* comparison depend on how float64 rounds.  A float64 is
\* sign * m * 2^e with m a natural of exactly 53 bits (or 0); the numbers
\* here stay far from the subnormal and the overflow range.  Naturals of
\* any size are sequences of limbs to the base 2^15, least significant
\* first, without a leading zero limb; <<>> is 0.  An intermediate value
\* that is read more than once is the parameter of the definition that
\* reads it.
Base == 2^15

RECURSIVE Big(_)
Big(n) == IF n = 0 THEN <<>> ELSE <<n % Base>> \o Big(n \div Base)

RECURSIVE Small(_)
Small(a) == IF a = <<>> THEN 0 ELSE Head(a) + Base * Small(Tail(a))

RECURSIVE Trim(_)
Trim(a) == IF a # <<>> /\ a[Len(a)] = 0 THEN Trim(SubSeq(a, 1, Len(a) - 1)) ELSE a

Limb(a, i) == IF i <= Len(a) THEN a[i] ELSE 0

RECURSIVE AddFrom(_, _, _, _)
AddFrom(a, b, i, carry) ==
    IF i > Len(a) /\ i > Len(b) THEN Big(carry)
    ELSE LET s == Limb(a, i) + Limb(b, i) + carry
         IN  <<s % Base>> \o AddFrom(a, b, i + 1, s \div Base)

BigAdd(a, b) == AddFrom(a, b, 1, 0)

RECURSIVE SubFrom(_, _, _, _)
SubFrom(a, b, i, borrow) ==
    IF i > Len(a) THEN <<>>
    ELSE LET d == a[i] - Limb(b, i) - borrow
         IN  IF d < 0 THEN <<d + Base>> \o SubFrom(a, b, i + 1, 1)
                      ELSE <<d>> \o SubFrom(a, b, i + 1, 0)

\* a - b, for a >= b
BigSub(a, b) == Trim(SubFrom(a, b, 1, 0))

RECURSIVE BigCmp(_, _)
\* -1, 0 or 1 as a is below, equal to or above b
BigCmp(a, b) ==
    IF Len(a) # Len(b) THEN (IF Len(a) < Len(b) THEN -1 ELSE 1)
    ELSE IF a = <<>> THEN 0
    ELSE IF a[Len(a)] # b[Len(b)] THEN (IF a[Len(a)] < b[Len(b)] THEN -1 ELSE 1)
    ELSE BigCmp(SubSeq(a, 1, Len(a) - 1), SubSeq(b, 1, Len(b) - 1))

RECURSIVE ScaleFrom(_, _, _, _)
ScaleFrom(a, k, i, carry) ==
    IF i > Len(a) THEN Big(carry)
    ELSE LET p == a[i] * k + carry
         IN  <<p % Base>> \o ScaleFrom(a, k, i + 1, p \div Base)

\* a * k, for k below the base
BigScale(a, k) == Trim(ScaleFrom(a, k, 1, 0))

RECURSIVE BigMul(_, _)
BigMul(a, b) ==
    IF a = <<>> \/ b = <<>> THEN <<>>
    ELSE Trim(BigAdd(BigScale(a, Head(b)), <<0>> \o BigMul(a, Tail(b))))

RECURSIVE QuotFrom(_, _, _, _)
QuotFrom(a, k, i, r) ==
    IF i = 0 THEN <<>>
    ELSE LET cur == r * Base + a[i]
         IN  QuotFrom(a, k, i - 1, cur % k) \o <<cur \div k>>

\* a \div k, for k not above the base
BigQuot(a, k) == Trim(QuotFrom(a, k, Len(a), 0))

RECURSIVE Zeros(_)
Zeros(n) == IF n = 0 THEN <<>> ELSE <<0>> \o Zeros(n - 1)

\* a * 2^k and a \div 2^k
BigShl(a, k) == IF a = <<>> THEN <<>> ELSE Zeros(k \div 15) \o BigScale(a, 2^(k % 15))
BigShr(a, k) ==
    IF k \div 15 >= Len(a) THEN <<>>
    ELSE BigQuot(SubSeq(a, (k \div 15) + 1, Len(a)), 2^(k % 15))

RECURSIVE Bits(_)
Bits(n) == IF n = 0 THEN 0 ELSE 1 + Bits(n \div 2)

\* The bits of a.
BitLen(a) == IF a = <<>> THEN 0 ELSE 15 * (Len(a) - 1) + Bits(a[Len(a)])

Float(sign, m, e) == [kind |-> "num", sign |-> sign, m |-> m, e |-> e]
NotANumber == [kind |-> "NaN", sign |-> 1, m |-> <<>>, e |-> 0]
Infinity(sign) == [kind |-> "Inf", sign |-> sign, m |-> <<>>, e |-> 0]
Zero == Float(1, <<>>, 0)

\* The 53 bits q go up by one when what was cut off compares as c with half
\* a unit and is above it, or is half a unit and q is odd.
Up(q, c, sticky) ==
    IF c > 0 \/ (c = 0 /\ (sticky \/ q[1] % 2 = 1)) THEN BigAdd(q, <<1>>) ELSE q

\* Going up may carry into a 54th bit.
Carried(sign, r, e) ==
    IF BitLen(r) = 54 THEN Float(sign, BigShr(r, 1), e + 1) ELSE Float(sign, r, e)

\* n without its cut low bits is q.
Cut(sign, n, e, sticky, cut, q) ==
    Carried(sign,
            Up(q, BigCmp(BigSub(n, BigShl(q, cut)), BigShl(<<1>>, cut - 1)), sticky),
            e + cut)

\* n has cut bits more than 53.
Fitted(sign, n, e, sticky, cut) ==
    IF n = <<>> THEN Zero
    ELSE IF cut <= 0 THEN Float(sign, BigShl(n, -cut), e + cut)
    ELSE Cut(sign, n, e, sticky, cut, BigShr(n, cut))

\* The float64 nearest to sign * n * 2^e, ties to the even one; with sticky,
\* nearest to a value above n * 2^e by less than 2^e, n then of 55 bits or
\* more.
Nearest(sign, n, e, sticky) == Fitted(sign, n, e, sticky, BitLen(n) - 53)

\* float64(n) of an integer n
Float64(n) == Nearest(IF n < 0 THEN -1 ELSE 1, Big(IF n < 0 THEN -n ELSE n), 0, FALSE)

One == Float64(1)

FNeg(x) == [x EXCEPT !.sign = -@]

Min(a, b) == IF a < b THEN a ELSE b

\* s * a * 2^e + t * b * 2^e, for naturals a and b that are not 0
Sum(s, a, t, b, e) ==
    Nearest(IF s = t \/ BigCmp(a, b) >= 0 THEN s ELSE t,
            IF s = t THEN BigAdd(a, b)
            ELSE IF BigCmp(a, b) >= 0 THEN BigSub(a, b)
            ELSE BigSub(b, a),
            e, FALSE)

\* x + y
FAdd(x, y) ==
    IF x.kind = "NaN" \/ y.kind = "NaN" THEN NotANumber
    ELSE IF x.kind = "Inf" THEN (IF y.kind = "Inf" /\ y.sign # x.sign THEN NotANumber ELSE x)
    ELSE IF y.kind = "Inf" THEN y
    ELSE IF x.m = <<>> THEN y
    ELSE IF y.m = <<>> THEN x
    ELSE IF x.e - y.e > 64 THEN x
    ELSE IF y.e - x.e > 64 THEN y
    ELSE Sum(x.sign, BigShl(x.m, x.e - Min(x.e, y.e)),
             y.sign, BigShl(y.m, y.e - Min(x.e, y.e)), Min(x.e, y.e))

\* x - y
FSub(x, y) == FAdd(x, FNeg(y))

\* d < 0
Negative(d) ==
    IF d.kind = "Inf" THEN d.sign = -1 ELSE d.kind = "num" /\ d.m # <<>> /\ d.sign = -1

\* x < y
FLess(x, y) == Negative(FSub(x, y))

\* x * y
FMul(x, y) ==
    IF x.kind = "NaN" \/ y.kind = "NaN" THEN NotANumber
    ELSE IF x.kind = "Inf" \/ y.kind = "Inf"
         THEN (IF x = Zero \/ y = Zero \/ FNeg(x) = Zero \/ FNeg(y) = Zero
               THEN NotANumber ELSE Infinity(x.sign * y.sign))
    ELSE Nearest(x.sign * y.sign, BigMul(x.m, y.m), x.e + y.e, FALSE)

\* The next limb of the quotient by d of what is left, R, which is below
\* Base * d; d has its top limb at Base / 2 or above, so that the guess from
\* the top limbs is the limb or above it by at most 2.
Guess(R, d) ==
    LET top == Limb(R, Len(d) + 1) * Base + Limb(R, Len(d))
    IN  IF top \div d[Len(d)] >= Base THEN Base - 1 ELSE top \div d[Len(d)]

Fits(R, d, k) == k >= 0 /\ BigCmp(BigScale(d, k), R) <= 0

Digit(R, d, guess) ==
    IF Fits(R, d, guess) THEN guess
    ELSE IF Fits(R, d, guess - 1) THEN guess - 1
    ELSE guess - 2

\* The limb, and what is left after it.
Taken(R, d, limb) == [q |-> limb, r |-> BigSub(R, BigScale(d, limb))]

DivStep(R, d) == Taken(R, d, Digit(R, d, Guess(R, d)))

RECURSIVE Quotient(_, _, _, _)
Carry(q, step, d, n) == Quotient(<<step.q>> \o q, step.r, d, n)

\* n limbs more of the quotient by d, after the limbs q, of r < d, and what
\* is left
Quotient(q, r, d, n) ==
    IF n = 0 THEN [q |-> q, r |-> r]
    ELSE Carry(q, DivStep(IF r = <<>> THEN <<>> ELSE <<0>> \o r, d), d, n - 1)

\* The quotient has 58 bits or more and what is left tells whether it is
\* exact.
Divided(sign, long, e) == Nearest(sign, Trim(long.q), e, long.r # <<>>)

\* x / y
FDiv(x, y) ==
    IF x.kind = "NaN" \/ y.kind = "NaN" THEN NotANumber
    ELSE IF x.kind = "Inf" THEN (IF y.kind = "Inf" THEN NotANumber ELSE Infinity(x.sign * y.sign))
    ELSE IF y.kind = "Inf" THEN Zero
    ELSE IF y.m = <<>> THEN (IF x.m = <<>> THEN NotANumber ELSE Infinity(x.sign * y.sign))
    ELSE IF x.m = <<>> THEN Zero
    ELSE Divided(x.sign * y.sign,
                 Quotient(<<>>, BigShl(x.m, 6), BigShl(y.m, 7), 4),
                 x.e - y.e - 59)

\* math.Frexp and math.Ldexp of a number that is not 0
Frexp(x) == [frac |-> [x EXCEPT !.e = -53], exp |-> x.e + 53]
Ldexp(frac, exp) == IF frac.kind = "num" /\ frac.m # <<>> THEN [frac EXCEPT !.e = @ + exp] ELSE frac

\* .5
Half == Ldexp(One, -1)

RECURSIVE PowLoop(_, _, _, _, _)
\* "if x1 < .5 { x1 += x1; xe-- }", and the loop goes on
Doubled(i, x1, xe, a1, ae) ==
    IF FLess(x1, Half) THEN PowLoop(i, FAdd(x1, x1), xe - 1, a1, ae)
    ELSE PowLoop(i, x1, xe, a1, ae)

\* The loop of math.Pow, "ans *= x**yi", for the yi still to go.
PowLoop(i, x1, xe, a1, ae) ==
    IF i = 0 THEN [a1 |-> a1, ae |-> ae]
    ELSE IF xe < -4096 \/ 4096 < xe THEN [a1 |-> a1, ae |-> ae + xe]
    ELSE Doubled(i \div 2, FMul(x1, x1), 2 * xe,
                 IF i % 2 = 1 THEN FMul(a1, x1) ELSE a1,
                 IF i % 2 = 1 THEN ae + xe ELSE ae)

\* "if y < 0 { a1 = 1 / a1; ae = -ae }; return Ldexp(a1, ae)"
Answer(y, ans) ==
    IF y < 0 THEN Ldexp(FDiv(One, ans.a1), -ans.ae) ELSE Ldexp(ans.a1, ans.ae)

\* math.Pow(x, y) of a finite x > 0 and a whole y
Pow(x, y) ==
    IF y = 0 \/ x = One THEN One
    ELSE IF y = 1 THEN x
    ELSE Answer(y, PowLoop(IF y < 0 THEN -y ELSE y, Frexp(x).frac, Frexp(x).exp, One, 0))

\* math.Round(x) of a finite x: the nearest integer, halves away from zero
Round(x) ==
    LET cut == -x.e
        q == BigShr(x.m, cut)
        up == BigCmp(BigSub(x.m, BigShl(q, cut)), BigShl(<<1>>, cut - 1)) >= 0
    IN  IF x.m = <<>> THEN 0
        ELSE IF x.e >= 0 THEN x.sign * Small(BigShl(x.m, x.e))
        ELSE x.sign * (Small(q) + (IF up THEN 1 ELSE 0))

\* ---------------------------------------------------------------- amortization
\* The float64 of an amount of mills: the one nearest to the decimal.
Money(mills) == FDiv(Float64(mills), Float64(1000))

\* The whole cents in |x|.
CentsBelow(x) == Small(BigShr(BigScale(x.m, 100), -x.e))

\* Whether the decimal the driver writes for |x| is k cents and a half or
\* more.  lib/pq writes the shortest decimal that reads back as x
\* (strconv 'f', -1): k cents and a half itself when x is the float64 of
\* that, and a decimal on the side of it where x lies when x is not.
AtHalf(x, k) ==
    \/ [x EXCEPT !.sign = 1] = FDiv(Float64(2 * k + 1), Float64(200))
    \/ BigCmp(BigScale(x.m, 200), BigShl(Big(2 * k + 1), -x.e)) > 0

KeptFrom(x, k) == x.sign * 10 * (IF AtHalf(x, k) THEN k + 1 ELSE k)

\* The mills a column of two places keeps of the float64 parameter x of a
\* statement: the decimal the driver writes, rounded to the cent, halves away
\* from zero (PostgreSQL numeric).  For a finite x with an exponent below 0,
\* as every amount of money has.
Kept(x) == IF x.m = <<>> THEN 0 ELSE KeptFrom(x, CentsBelow(x))

\* The float64 NaN and +Inf, which are no amounts of mills.
NaN == -1
Inf == -2

\* "payment := (monthlyRate * principal) / (1 - math.Pow(1+monthlyRate, -term))"
Payment(monthlyRate, principal, termMonths) ==
    FDiv(FMul(monthlyRate, principal),
         FSub(One, Pow(FAdd(One, monthlyRate), -termMonths)))

\* "math.Round(payment*100) / 100", in mills
Cents(payment) ==
    IF payment.kind = "NaN" THEN NaN
    ELSE IF payment.kind = "Inf" THEN Inf
    ELSE 10 * Round(FMul(payment, Float64(100)))

\* Service.calculateAnnuityPayment, in mills:
\* (r * PV) / (1 - (1 + r)^(-n)) in float64, rounded to cents by
\* math.Round(payment * 100) / 100.  For annualRate = 0 both the numerator
\* and 1 - math.Pow(1, -n) are 0 and the quotient is NaN, and so is
\* math.Round of it.
calculateAnnuityPayment(principal, annualRate, termMonths) ==
    Cents(Payment(FDiv(FDiv(Float64(annualRate), Float64(100)), Float64(12)),
                  Money(principal), termMonths))

\* ---------------------------------------------------------------- calendar
\* The days of month m, where month 1 is January 2000 (years 2000 to 2099: a
\* leap year every fourth).
DaysIn(m) ==
    LET year == (m - 1) \div 12
        month == ((m - 1) % 12) + 1
    IN  IF month = 2 THEN (IF year % 4 = 0 THEN 29 ELSE 28)
        ELSE IF month \in {4, 6, 9, 11} THEN 30 ELSE 31

RECURSIVE FirstDay(_)
\* The day number of the first day of month m; day 1 is 1 January 2000.
FirstDay(m) == IF m = 1 THEN 1 ELSE FirstDay(m - 1) + DaysIn(m - 1)

\* time.Date(year, month, day, ...): a day beyond the end of the month is
\* normalised into the month after.
Date(m, d) == FirstDay(m) + d - 1

RECURSIVE MonthFrom(_, _)
MonthFrom(t, m) == IF t < FirstDay(m + 1) THEN m ELSE MonthFrom(t, m + 1)

\* The month and the day of the month of day number t.
MonthOf(t) == MonthFrom(t, 1)
DayOf(t) == t - FirstDay(MonthOf(t)) + 1

\* t.AddDate(0, months, 0)
AddDate(t, months) == Date(MonthOf(t) + months, DayOf(t))

\* time.Now() as generatePaymentSchedule reads it, once for every entry: the
\* calendar date, and for entry i the days back[i] that
\* Truncate(24 * time.Hour) takes its date back.  Truncate cuts at midnight
\* UTC, which for a server clock not on UTC falls on the day before during
\* part of the day.
Clock(day, back) == [day |-> day, back |-> back]

\* As generatePaymentSchedule, had every entry been due AddDate(0, 1, 0).
generatePaymentScheduleSameDay(creditID, credit, today) ==
    LET monthlyPayment == calculateAnnuityPayment(credit.amount, credit.rate, credit.term)
    IN  [i \in 1..credit.term |->
            [credit |-> creditID,
             date |-> AddDate(today.day, 1) - today.back[i],
             amount |-> monthlyPayment,
             paid |-> FALSE,
             penalty |-> 0]]

\* Service.generatePaymentSchedule: one entry per month of the term, entry i
\* due time.Now().AddDate(0, i, 0).Truncate(24h), same amount, unpaid, no
\* penalty.
generatePaymentSchedule(creditID, credit, today) ==
    LET monthlyPayment == calculateAnnuityPayment(credit.amount, credit.rate, credit.term)
    IN  [i \in 1..credit.term |->
            [credit |-> creditID,
             date |-> AddDate(today.day, i) - today.back[i],
             amount |-> monthlyPayment,
             paid |-> FALSE,
             penalty |-> 0]]

BankMargin == 5

NoAnnuity == [principal |-> 0, rate |-> 0, term |-> 0, payment |-> 0]

\* A caller computes the installment of a credit.
Annuity(principal, annualRate, termMonths) ==
    /\ annuity = NoAnnuity
    /\ annuity' = [principal |-> principal, rate |-> annualRate, term |-> termMonths,
                   payment |-> calculateAnnuityPayment(principal, annualRate, termMonths)]
    /\ UNCHANGED <<balance, transactions, credits, schedules, cards, now, crypto, tags, accounts, pc, req,
                   legs, txbuf, payments, idx, calls, triggers, opening, history>>

\* models.Credit as Service.CreateCredit fills it
Credit(u, a, amt, rate, term) ==
    [user |-> u, account |-> a, amount |-> amt, rate |-> rate, term |-> term]

\* ---------------------------------------------------------------- utils
\* Strings and byte slices are sequences of bytes (0..255); a hex string is a
\* sequence of hex digits (0..15).
BlockSize == 16

KeySizes == {16, 24, 32}

\* What a function returning (string, error) returns.
Returned(value) == [err |-> "", value |-> value]
Failed(err) == [err |-> err, value |-> <<>>]
NoResult == [err |-> "none", value |-> <<>>]

\* The strings handed to Encrypt: the empty string, and up to MaxText bytes,
\* all alike but the last.
Texts ==
    {[i \in 1..n |-> IF i = n THEN last ELSE fill] :
        n \in 0..MaxText, fill \in TextBytes, last \in TextBytes}

\* Keys of the sizes AES takes.
Keys == {[i \in 1..n |-> (7 * i) % 256] : n \in KeySizes}

\* Keys of other sizes: empty, one byte short, one byte long.
BadKeySizes == {0, 15, 33}
BadKeys == {[i \in 1..n |-> (7 * i) % 256] : n \in BadKeySizes}

IVs == {[i \in 1..BlockSize |-> b] : b \in IVBytes}

\* The block cipher block.Encrypt / block.Decrypt of aes.NewCipher(key): a
\* permutation of the blocks chosen by the key, and its inverse.
KeyByte(key, j) == key[((j - 1) % Len(key)) + 1]
EncryptBlock(key, block) == [j \in 1..BlockSize |-> (block[j] + KeyByte(key, j)) % 256]
DecryptBlock(key, block) == [j \in 1..BlockSize |-> (block[j] + 256 - KeyByte(key, j)) % 256]

\* The combination of a block with the previous ciphertext block in CBC mode
\* (XOR in the source; here addition modulo 256, byte by byte) and its inverse.
Chain(block, prev) == [j \in 1..BlockSize |-> (block[j] + prev[j]) % 256]
Unchain(block, prev) == [j \in 1..BlockSize |-> (block[j] + 256 - prev[j]) % 256]

\* cipher.NewCBCEncrypter(block, iv).CryptBlocks over whole blocks.
RECURSIVE CBCEncrypt(_, _, _)
CBCEncrypt(key, prev, data) ==
    IF data = <<>> THEN <<>>
    ELSE LET c == EncryptBlock(key, Chain(SubSeq(data, 1, BlockSize), prev))
         IN  c \o CBCEncrypt(key, c, SubSeq(data, BlockSize + 1, Len(data)))

\* cipher.NewCBCDecrypter(block, iv).CryptBlocks over whole blocks.
RECURSIVE CBCDecrypt(_, _, _)
CBCDecrypt(key, prev, data) ==
    IF data = <<>> THEN <<>>
    ELSE LET c == SubSeq(data, 1, BlockSize)
         IN  Unchain(DecryptBlock(key, c), prev)
                \o CBCDecrypt(key, c, SubSeq(data, BlockSize + 1, Len(data)))

\* hex.EncodeToString
HexEncode(bytes) ==
    [i \in 1..2 * Len(bytes) |->
        IF i % 2 = 1 THEN bytes[(i + 1) \div 2] \div 16 ELSE bytes[i \div 2] % 16]

\* hex.DecodeString: an error for an odd length or a character that is no
\* hex digit.
HexDecode(h) ==
    IF Len(h) % 2 # 0 \/ \E i \in DOMAIN h : h[i] \notin 0..15
    THEN Failed("failed to decode hex")
    ELSE Returned([i \in 1..Len(h) \div 2 |-> 16 * h[2 * i - 1] + h[2 * i]])

\* Encrypt, "padding": bytes are appended only when the length is not a
\* multiple of the block size.
Padded(dataBytes) ==
    IF Len(dataBytes) % BlockSize # 0
    THEN LET padding == BlockSize - (Len(dataBytes) % BlockSize)
         IN  dataBytes \o [i \in 1..padding |-> padding]
    ELSE dataBytes

\* utils.Encrypt(data, key) with the IV rand.Read gave it.
Encrypt(data, key, iv) ==
    IF Len(key) \notin KeySizes
    THEN Failed("encryption key must be 16, 24, or 32 bytes")
    ELSE Returned(HexEncode(iv \o CBCEncrypt(key, iv, Padded(data))))

\* Decrypt, "remove padding", of the decrypted blocks; indexing the last byte
\* of an empty slice panics.
Unpadded(plaintext) ==
    IF plaintext = <<>> THEN Failed("panic: index out of range")
    ELSE LET padding == plaintext[Len(plaintext)] IN
         IF padding > BlockSize \/ padding = 0 THEN Failed("invalid padding")
         ELSE IF \E i \in (Len(plaintext) - padding + 1)..Len(plaintext) :
                    plaintext[i] # padding
              THEN Failed("invalid padding bytes")
              ELSE Returned(SubSeq(plaintext, 1, Len(plaintext) - padding))

\* As Decrypt, had the key check refused short keys only.
DecryptLongKey(encryptedData, key) ==
    IF Len(key) < 16
    THEN Failed("decryption key must be 16, 24, or 32 bytes")
    ELSE LET decoded == HexDecode(encryptedData) IN
         IF decoded.err # "" THEN decoded
         ELSE LET data == decoded.value IN
              IF Len(data) < BlockSize THEN Failed("invalid encrypted data length")
              ELSE LET iv == SubSeq(data, 1, BlockSize)
                       ciphertext == SubSeq(data, BlockSize + 1, Len(data))
                   IN  IF Len(ciphertext) % BlockSize # 0
                       THEN Failed("invalid ciphertext length")
                       ELSE Unpadded(CBCDecrypt(key, iv, ciphertext))

\* utils.Decrypt(encryptedData, key)
Decrypt(encryptedData, key) ==
    IF Len(key) \notin KeySizes
    THEN Failed("decryption key must be 16, 24, or 32 bytes")
    ELSE LET decoded == HexDecode(encryptedData) IN
         IF decoded.err # "" THEN decoded
         ELSE LET data == decoded.value IN
              IF Len(data) < BlockSize THEN Failed("invalid encrypted data length")
              ELSE LET iv == SubSeq(data, 1, BlockSize)
                       ciphertext == SubSeq(data, BlockSize + 1, Len(data))
                   IN  IF Len(ciphertext) % BlockSize # 0
                       THEN Failed("invalid ciphertext length")
                       ELSE Unpadded(CBCDecrypt(key, iv, ciphertext))

\* "400000" and 16, the arguments Service.CreateCard gives GenerateCardNumber;
\* "0" is byte 48.
CardPrefix == <<52, 48, 48, 48, 48, 48>>
CardLength == 16

\* What rand.Read fills the digits of a card number with.
RandomDigits == {[i \in 1..(CardLength - Len(CardPrefix)) |-> b] : b \in RandomBytes}

\* utils.GenerateCardNumber(prefix, length) with the bytes rand.Read gave it:
\* the prefix, then one decimal digit (b % 10) per random byte.
GenerateCardNumber(prefix, length, digits) ==
    IF length < Len(prefix) \/ length > 19
    THEN Failed("invalid card number length")
    ELSE LET cardNumber == prefix \o [i \in DOMAIN digits |-> (digits[i] % 10) + 48] IN
         IF Len(cardNumber) # length
         THEN Failed("generated card number has incorrect length")
         ELSE Returned(cardNumber)

\* fmt.Sprintf("%02d", n)
TwoDigits(n) == <<((n \div 10) % 10) + 48, (n % 10) + 48>>

\* utils.GenerateExpiryDate on day today: "MM/YY" three years on; "/" is
\* byte 47.
GenerateExpiryDate(today) ==
    LET month == ((MonthOf(today) - 1) % 12) + 1
        year == 2000 + ((MonthOf(today) - 1) \div 12) + 3
    IN  TwoDigits(month) \o <<47>> \o TwoDigits(year % 100)

\* utils.GenerateCVV with the three bytes rand.Read gave it.
GenerateCVV(b) == <<(b[1] % 10) + 48, (b[2] % 10) + 48, (b[3] % 10) + 48>>

\* The digests of sha256 and bcrypt, as functions of the bytes hashed: a
\* polynomial of the bytes modulo a prime.
DigestPrime == 32749

RECURSIVE DigestPower(_)
DigestPower(k) ==
    IF k = 0 THEN 1
    ELSE IF k % 2 = 1 THEN (31 * DigestPower(k - 1)) % DigestPrime
    ELSE (DigestPower(k \div 2) * DigestPower(k \div 2)) % DigestPrime

RECURSIVE DigestSum(_)
DigestSum(bytes) ==
    IF bytes = <<>> THEN 0
    ELSE IF Len(bytes) = 1 THEN bytes[1]
    ELSE LET half == Len(bytes) \div 2
             rest == Len(bytes) - half
         IN  (DigestSum(SubSeq(bytes, 1, half)) * DigestPower(rest)
                + DigestSum(SubSeq(bytes, half + 1, Len(bytes)))) % DigestPrime

Digest(bytes) == (7 * DigestPower(Len(bytes)) + DigestSum(bytes)) % DigestPrime

\* bcrypt.GenerateFromPassword: "$" (byte 36), the salt, and the digest of
\* salt and password in two bytes.
Bcrypt(password, salt) ==
    LET digest == Digest(salt \o password)
    IN  <<36>> \o salt \o <<digest \div 256, digest % 256>>

\* utils.GenerateHMAC, "data := cardNumber + expiryDate + cvv": the bytes
\* written to the keyed hash.
HMACData(cardNumber, expiryDate, cvv) == cardNumber \o expiryDate \o cvv

\* utils.GenerateHMAC: the keyed hash of the concatenation of the three
\* strings.
GenerateHMAC(cardNumber, expiryDate, cvv, secret) ==
    Digest(secret \o <<0>> \o HMACData(cardNumber, expiryDate, cvv))

\* config.Load: the default of ENCRYPTION_KEY, "a1b2...c5d6" twice, as
\* hex.DecodeString gives it to Service.CreateCard (32 bytes).
EncryptionKeyHalf ==
    <<161, 178, 195, 212, 229, 246, 167, 184, 201, 208, 225, 242, 163, 180,
      197, 214>>
EncryptionKey == EncryptionKeyHalf \o EncryptionKeyHalf

\* config.Load: the default of HMAC_SECRET, the same 64 characters, used as
\* they are.
HMACSecretHalf ==
    <<97, 49, 98, 50, 99, 51, 100, 52, 101, 53, 102, 54, 97, 55, 98, 56, 99,
      57, 100, 48, 101, 49, 102, 50, 97, 51, 98, 52, 99, 53, 100, 54>>
HMACSecret == HMACSecretHalf \o HMACSecretHalf

RECURSIVE Decimal(_)
\* fmt.Sprintf("%d", n), n >= 0
Decimal(n) ==
    IF n < 10 THEN <<n + 48>> ELSE Decimal(n \div 10) \o <<(n % 10) + 48>>

\* fmt.Sprintf("%.2f", amount), amount >= 0 a whole number of cents; "." is
\* byte 46.
Fixed2(amount) == Decimal(amount \div 1000) \o <<46>> \o TwoDigits((amount \div 10) % 100)

\* Service.CreateCredit, "Generate HMAC for credit": the three strings it
\* formats, what GenerateHMAC hashes of them, and the tag.
CreditTag(userID, accountID, amount) ==
    [user |-> userID, account |-> accountID, amount |-> amount,
     data |-> HMACData(Decimal(userID), Decimal(accountID), Fixed2(amount)),
     hmac |-> GenerateHMAC(Decimal(userID), Decimal(accountID), Fixed2(amount), HMACSecret)]

\* A credit is tagged.
TagCredit(userID, accountID, amount) ==
    /\ Cardinality(tags) < MaxTags
    /\ tags' = tags \cup {CreditTag(userID, accountID, amount)}
    /\ UNCHANGED <<balance, transactions, credits, schedules, cards, now, crypto, annuity, accounts, pc,
                   req, legs, txbuf, payments, idx, calls, triggers, opening, history>>

\* models.Card as Service.CreateCard hands it to the repository.
Card(account, cardNumber, expiryDate, cvv, hmac) ==
    [account |-> account, number |-> cardNumber, expiry |-> expiryDate, cvv |-> cvv,
     hmac |-> hmac]

NoCrypto == [data |-> <<>>, key |-> <<>>, sealed |-> NoResult, opened |-> NoResult,
             other |-> <<>>, reopened |-> NoResult]

\* A caller encrypts the string data under key.
EncryptData(data, key, iv) ==
    /\ crypto = NoCrypto
    /\ crypto' = [NoCrypto EXCEPT !.data = data, !.key = key,
                                   !.sealed = Encrypt(data, key, iv)]
    /\ UNCHANGED <<balance, transactions, credits, schedules, cards, now, annuity, tags, accounts, pc, req, legs,
                   txbuf, payments, idx, calls, triggers, opening, history>>

\* The caller decrypts, under the same key, what Encrypt returned.
DecryptData ==
    /\ crypto.sealed.err = ""
    /\ crypto.opened = NoResult
    /\ crypto' = [crypto EXCEPT !.opened = Decrypt(crypto.sealed.value, crypto.key)]
    /\ UNCHANGED <<balance, transactions, credits, schedules, cards, now, annuity, tags, accounts, pc, req, legs,
                   txbuf, payments, idx, calls, triggers, opening, history>>

\* A caller decrypts what Encrypt returned under a key of its own.
DecryptUnder(key) ==
    /\ crypto.sealed.err = ""
    /\ crypto.reopened = NoResult
    /\ crypto' = [crypto EXCEPT !.other = key,
                                !.reopened = Decrypt(crypto.sealed.value, key)]
    /\ UNCHANGED <<balance, transactions, credits, schedules, cards, now, annuity, tags, accounts, pc, req, legs,
                   txbuf, payments, idx, calls, triggers, opening, history>>

\* ---------------------------------------------------------------- store
\* As ApplyWrite, had CreateTransaction left out the UPDATE of the balance.
ApplyWriteInsertOnly(st, w) ==
    IF w.kind = "insert"
    THEN [st EXCEPT !.transactions = @ (+) SetToBag({w.tx})]
    ELSE st

\* As ApplyWrite, had the INSERT replaced the account's last row of the same
\* type (an upsert) instead of adding one.
ApplyWriteUpsert(st, w) ==
    IF w.kind = "insert"
    THEN LET same == {t \in BagToSet(st.transactions) :
                        t.account = w.tx.account /\ t.type = w.tx.type}
         IN  IF same = {} THEN [st EXCEPT !.transactions = @ (+) SetToBag({w.tx})]
             ELSE LET old == CHOOSE t \in same : TRUE
                  IN  [st EXCEPT !.transactions = (@ (-) SetToBag({old})) (+) SetToBag({w.tx})]
    ELSE [st EXCEPT !.balance[w.account] = @ + w.delta]

\* One statement of an open sql.Tx takes effect on the committed store.
ApplyWrite(st, w) ==
    IF w.kind = "insert"
    THEN [st EXCEPT !.transactions = @ (+) SetToBag({w.tx})]
    ELSE [st EXCEPT !.balance[w.account] = @ + w.delta]

RECURSIVE ApplyWrites(_, _)
ApplyWrites(st, ws) ==
    IF ws = <<>> THEN st
    ELSE ApplyWrites(ApplyWrite(st, Head(ws)), Tail(ws))

\* A service call of a request goroutine returns to the handler.
Finish(p, r, outcome) ==
    /\ pc' = [pc EXCEPT ![p] = "idle"]
    /\ req' = [req EXCEPT ![p] = NoReq]
    /\ txbuf' = [txbuf EXCEPT ![p] = <<>>]
    /\ legs' = [legs EXCEPT ![p] = <<>>]
    /\ history' = history (+) SetToBag({r @@ [outcome |-> outcome]})

\* The call goes on to its next round trip.
Proceed(p, r, next, ts) ==
    /\ pc' = [pc EXCEPT ![p] = next]
    /\ req' = [req EXCEPT ![p] = r]
    /\ legs' = [legs EXCEPT ![p] = ts]
    /\ UNCHANGED <<txbuf, history>>

\* ---------------------------------------------------------------- account service
\* Service.CreateAccount: Repository.CreateAccount (one INSERT on r.db) of an
\* account of the caller with balance 0; the id is the next of the sequence.
CreateAccount(p, u) ==
    LET r == Request("account", u, 0, 0, 0, 0)
        id == Len(accounts) + 1 IN
    /\ p \in Clients
    /\ pc[p] = "idle"
    /\ calls < MaxCalls
    /\ calls' = calls + 1
    /\ \/ /\ Finish(p, r, "error")
          /\ UNCHANGED <<accounts, balance>>
       \/ /\ accounts' = Append(accounts, u)
          /\ balance' = Append(balance, 0)
          /\ Finish(p, [r EXCEPT !.account = id, !.to = id, !.id = id], "ok")
    /\ UNCHANGED <<transactions, credits, schedules, cards, now, crypto, annuity, tags,
                   payments, idx, triggers, opening>>

\* ---------------------------------------------------------------- ledger service
\* As Deposit, had it gone without "Verify account belongs to user".
DepositUnowned(p, u, a, amt) ==
    LET r == Request("deposit", u, a, a, amt, 0) IN
    /\ p \in Clients
    /\ pc[p] = "idle"
    /\ calls < MaxCalls
    /\ calls' = calls + 1
    /\ \/ Finish(p, r, "error")
       \/ amt <= 0 /\ Finish(p, r, "invalid")
       \/ /\ amt > 0
          /\ Proceed(p, r, "begin", <<Transaction(a, amt, "deposit", 0)>>)
    /\ UNCHANGED <<store, payments, idx, triggers, opening>>

\* Service.Deposit up to the repository call: FindAccountByID, the owner
\* check, the amount check, the transaction value.
Deposit(p, u, a, amt) ==
    LET r == Request("deposit", u, a, a, amt, 0) IN
    /\ p \in Clients
    /\ pc[p] = "idle"
    /\ calls < MaxCalls
    /\ calls' = calls + 1
    /\ \/ Finish(p, r, "error")
       \/ accounts[a] # u /\ Finish(p, r, "forbidden")
       \/ accounts[a] = u /\ amt <= 0 /\ Finish(p, r, "invalid")
       \/ /\ accounts[a] = u
          /\ amt > 0
          /\ Proceed(p, r, "begin", <<Transaction(a, amt, "deposit", 0)>>)
    /\ UNCHANGED <<store, payments, idx, triggers, opening>>

\* Service.Withdraw up to the balance read.
Withdraw(p, u, a, amt) ==
    LET r == Request("withdraw", u, a, a, amt, 0) IN
    /\ p \in Clients
    /\ pc[p] = "idle"
    /\ calls < MaxCalls
    /\ calls' = calls + 1
    /\ \/ Finish(p, r, "error")
       \/ accounts[a] # u /\ Finish(p, r, "forbidden")
       \/ accounts[a] = u /\ amt <= 0 /\ Finish(p, r, "invalid")
       \/ /\ accounts[a] = u
          /\ amt > 0
          /\ Proceed(p, r, "balance", <<>>)
    /\ UNCHANGED <<store, payments, idx, triggers, opening>>

\* As WithdrawCheck, had Service.Withdraw gone without "Check balance".
WithdrawCheckUnchecked(p) ==
    /\ p \in Clients
    /\ pc[p] = "balance"
    /\ req[p].op = "withdraw"
    /\ \/ Finish(p, req[p], "error")
       \/ Proceed(p, req[p], "begin",
                  <<Transaction(req[p].account, -req[p].amount, "withdrawal", 0)>>)
    /\ UNCHANGED <<store, payments, idx, calls, triggers, opening>>

\* As WithdrawCheck, had the comparison been "balance <= amount".
WithdrawCheckStrict(p) ==
    /\ p \in Clients
    /\ pc[p] = "balance"
    /\ req[p].op = "withdraw"
    /\ \/ Finish(p, req[p], "error")
       \/ LET bal == balance[req[p].account] IN
             IF bal <= req[p].amount
             THEN Finish(p, req[p], "insufficient")
             ELSE Proceed(p, req[p], "begin",
                          <<Transaction(req[p].account, -req[p].amount, "withdrawal", 0)>>)
    /\ UNCHANGED <<store, payments, idx, calls, triggers, opening>>

\* Service.Withdraw, "Check balance": GetAccountBalance on r.db (outside any
\* transaction), the comparison, the transaction value.
WithdrawCheck(p) ==
    /\ p \in Clients
    /\ pc[p] = "balance"
    /\ req[p].op = "withdraw"
    /\ \/ Finish(p, req[p], "error")
       \/ LET bal == balance[req[p].account] IN
             IF bal < req[p].amount
             THEN Finish(p, req[p], "insufficient")
             ELSE Proceed(p, req[p], "begin",
                          <<Transaction(req[p].account, -req[p].amount, "withdrawal", 0)>>)
    /\ UNCHANGED <<store, payments, idx, calls, triggers, opening>>

\* As Transfer, had it refused a destination that is the source.
TransferToAnother(p, u, from, to, amt) ==
    LET r == Request("transfer", u, from, to, amt, 0) IN
    /\ p \in Clients
    /\ pc[p] = "idle"
    /\ calls < MaxCalls
    /\ calls' = calls + 1
    /\ \/ Finish(p, r, "error")
       \/ accounts[from] # u /\ Finish(p, r, "forbidden")
       \/ accounts[from] = u /\ from = to /\ Finish(p, r, "invalid")
       \/ /\ accounts[from] = u
          /\ from # to
          /\ Proceed(p, r, "verify", <<>>)
    /\ UNCHANGED <<store, payments, idx, triggers, opening>>

\* Service.Transfer, "Verify from_account belongs to user":
\* FindAccountByID(fromAccountID) and the owner check.
Transfer(p, u, from, to, amt) ==
    LET r == Request("transfer", u, from, to, amt, 0) IN
    /\ p \in Clients
    /\ pc[p] = "idle"
    /\ calls < MaxCalls
    /\ calls' = calls + 1
    /\ \/ Finish(p, r, "error")
       \/ accounts[from] # u /\ Finish(p, r, "forbidden")
       \/ /\ accounts[from] = u
          /\ Proceed(p, r, "verify", <<>>)
    /\ UNCHANGED <<store, payments, idx, triggers, opening>>

\* As TransferVerify, had "Validate amount" refused negative amounts only.
TransferVerifyOfNothing(p) ==
    /\ p \in Clients
    /\ pc[p] = "verify"
    /\ \/ Finish(p, req[p], "error")
       \/ req[p].amount < 0 /\ Finish(p, req[p], "invalid")
       \/ req[p].amount >= 0 /\ Proceed(p, req[p], "balance", <<>>)
    /\ UNCHANGED <<store, payments, idx, calls, triggers, opening>>

\* Service.Transfer, "Verify to_account exists" and "Validate amount":
\* FindAccountByID(toAccountID), then the amount check.
TransferVerify(p) ==
    /\ p \in Clients
    /\ pc[p] = "verify"
    /\ \/ Finish(p, req[p], "error")
       \/ req[p].amount <= 0 /\ Finish(p, req[p], "invalid")
       \/ req[p].amount > 0 /\ Proceed(p, req[p], "balance", <<>>)
    /\ UNCHANGED <<store, payments, idx, calls, triggers, opening>>

\* As TransferCheck, had the deposit leg carried the amount of the withdrawal
\* leg.
TransferCheckSameSign(p) ==
    /\ p \in Clients
    /\ pc[p] = "balance"
    /\ req[p].op = "transfer"
    /\ \/ Finish(p, req[p], "error")
       \/ LET bal == balance[req[p].account] IN
             IF bal < req[p].amount
             THEN Finish(p, req[p], "insufficient")
             ELSE Proceed(p, req[p], "begin",
                          << Transaction(req[p].account, -req[p].amount, "transfer_out",
                                         req[p].to),
                             Transaction(req[p].to, -req[p].amount, "transfer_in",
                                         req[p].account) >>)
    /\ UNCHANGED <<store, payments, idx, calls, triggers, opening>>

\* Service.Transfer, "Check balance" and "Create transactions".
TransferCheck(p) ==
    /\ p \in Clients
    /\ pc[p] = "balance"
    /\ req[p].op = "transfer"
    /\ \/ Finish(p, req[p], "error")
       \/ LET bal == balance[req[p].account] IN
             IF bal < req[p].amount
             THEN Finish(p, req[p], "insufficient")
             ELSE Proceed(p, req[p], "begin",
                          << Transaction(req[p].account, -req[p].amount, "transfer_out",
                                         req[p].to),
                             Transaction(req[p].to, req[p].amount, "transfer_in",
                                         req[p].account) >>)
    /\ UNCHANGED <<store, payments, idx, calls, triggers, opening>>

\* ---------------------------------------------------------------- credit service
\* As CreateCredit, had "Validate input" had no upper limit of the term.
CreateCreditAnyTerm(p, u, a, amt, term) ==
    LET r == Request("credit", u, a, a, amt, term) IN
    /\ p \in Clients
    /\ pc[p] = "idle"
    /\ calls < MaxCalls
    /\ calls' = calls + 1
    /\ \/ Finish(p, r, "error")
       \/ accounts[a] # u /\ Finish(p, r, "forbidden")
       \/ accounts[a] = u /\ (amt <= 0 \/ term <= 0) /\ Finish(p, r, "invalid")
       \/ /\ accounts[a] = u
          /\ amt > 0 /\ term > 0
          /\ Proceed(p, r, "rate", <<>>)
    /\ UNCHANGED <<store, payments, idx, triggers, opening>>

\* Service.CreateCredit up to the rate query: FindAccountByID, the owner
\* check, "Validate input".
CreateCredit(p, u, a, amt, term) ==
    LET r == Request("credit", u, a, a, amt, term) IN
    /\ p \in Clients
    /\ pc[p] = "idle"
    /\ calls < MaxCalls
    /\ calls' = calls + 1
    /\ \/ Finish(p, r, "error")
       \/ accounts[a] # u /\ Finish(p, r, "forbidden")
       \/ accounts[a] = u /\ (amt <= 0 \/ term <= 0 \/ term > 360) /\ Finish(p, r, "invalid")
       \/ /\ accounts[a] = u
          /\ amt > 0 /\ term > 0 /\ term <= 360
          /\ Proceed(p, r, "rate", <<>>)
    /\ UNCHANGED <<store, payments, idx, triggers, opening>>

\* As GetKeyRate, had the client returned the key rate without the margin.
GetKeyRateBare(p) ==
    /\ p \in Clients
    /\ pc[p] = "rate"
    /\ \/ Finish(p, [req[p] EXCEPT !.asked = @ + 1], "error")
       \/ \E k \in KeyRates :
            Proceed(p, [req[p] EXCEPT !.quote = k, !.rate = k, !.asked = @ + 1],
                    "credit", <<>>)
    /\ UNCHANGED <<store, payments, idx, calls, triggers, opening>>

\* CBRClient.GetKeyRate as Service.CreateCredit calls it: the provider's key
\* rate plus the bank margin, or an error.
GetKeyRate(p) ==
    /\ p \in Clients
    /\ pc[p] = "rate"
    /\ \/ Finish(p, [req[p] EXCEPT !.asked = @ + 1], "error")
       \/ \E k \in KeyRates :
            Proceed(p, [req[p] EXCEPT !.quote = k, !.rate = k + BankMargin,
                                      !.asked = @ + 1],
                    "credit", <<>>)
    /\ UNCHANGED <<store, payments, idx, calls, triggers, opening>>

\* As InsertCredit, had issuing the credit paid the principal into the
\* funding account.
InsertCreditDisbursing(p) ==
    LET c == Credit(req[p].user, req[p].account, req[p].amount, req[p].rate, req[p].term)
        id == Len(credits) + 1 IN
    /\ p \in Clients
    /\ pc[p] = "credit"
    /\ \/ /\ Finish(p, req[p], "error")
          /\ UNCHANGED <<credits, balance, transactions>>
       \/ /\ credits' = Append(credits, c)
          /\ balance' = [balance EXCEPT ![c.account] = @ + c.amount]
          /\ transactions' = transactions (+)
                                SetToBag({Transaction(c.account, c.amount, "deposit", id)})
          /\ \E back \in [1..c.term -> TruncateBack] :
                Proceed(p, [req[p] EXCEPT !.id = id], "schedule",
                        generatePaymentSchedule(id, c, Clock(now, back)))
    /\ UNCHANGED <<schedules, cards, now, crypto, annuity, tags, accounts, payments, idx, calls,
                   triggers, opening>>

\* Repository.CreateCredit (one INSERT on r.db, committed at once), then
\* Service.generatePaymentSchedule with the id the INSERT returned.
InsertCredit(p) ==
    LET c == Credit(req[p].user, req[p].account, req[p].amount, req[p].rate, req[p].term)
        id == Len(credits) + 1 IN
    /\ p \in Clients
    /\ pc[p] = "credit"
    /\ \/ /\ Finish(p, req[p], "error")
          /\ UNCHANGED credits
       \/ /\ credits' = Append(credits, c)
          /\ \E back \in [1..c.term -> TruncateBack] :
                Proceed(p, [req[p] EXCEPT !.id = id], "schedule",
                        generatePaymentSchedule(id, c, Clock(now, back)))
    /\ UNCHANGED <<balance, transactions, schedules, cards, now, crypto, annuity, tags, accounts, payments, idx, calls,
                   triggers, opening>>

\* One turn of the loop of Service.CreateCredit over the schedule:
\* Repository.CreatePaymentSchedule (one INSERT on r.db, committed at once);
\* the first failure returns the error, the last success returns the credit.
CreatePaymentSchedule(p) ==
    /\ p \in Clients
    /\ pc[p] = "schedule"
    /\ \/ /\ Finish(p, req[p], "error")
          /\ UNCHANGED schedules
       \/ /\ schedules' = Append(schedules, Head(legs[p]))
          /\ IF Tail(legs[p]) = <<>>
             THEN Finish(p, req[p], "ok")
             ELSE Proceed(p, req[p], "schedule", Tail(legs[p]))
    /\ UNCHANGED <<balance, transactions, credits, cards, now, crypto, annuity, tags, accounts, payments, idx, calls,
                   triggers, opening>>

\* ---------------------------------------------------------------- card service
\* As CreateCard, had the card value been filled with cvv instead of
\* string(cvvHash).
CreateCardPlainCVV(p, u, a) ==
    LET r == Request("card", u, a, a, 0, 0) IN
    /\ p \in Clients
    /\ pc[p] = "idle"
    /\ calls < MaxCalls
    /\ calls' = calls + 1
    /\ \/ Finish(p, r, "error")
       \/ accounts[a] # u /\ Finish(p, r, "forbidden")
       \/ /\ accounts[a] = u
          /\ \E digits \in RandomDigits, b \in RandomBytes, iv1 \in IVs, iv2 \in IVs :
                LET cardNumber == GenerateCardNumber(CardPrefix, CardLength, digits)
                    expiryDate == GenerateExpiryDate(now)
                    cvv == GenerateCVV(<<b, b, b>>)
                    encryptedCardNumber == Encrypt(cardNumber.value, EncryptionKey, iv1)
                    encryptedExpiryDate == Encrypt(expiryDate, EncryptionKey, iv2)
                    card == Card(a, encryptedCardNumber.value, encryptedExpiryDate.value,
                                 cvv,
                                 GenerateHMAC(cardNumber.value, expiryDate, cvv, HMACSecret))
                IN  IF \/ cardNumber.err # ""
                       \/ Len(EncryptionKey) # 32
                       \/ encryptedCardNumber.err # ""
                       \/ encryptedExpiryDate.err # ""
                    THEN Finish(p, r, "error")
                    ELSE Proceed(p, r, "card",
                                 <<card, Card(a, cardNumber.value, expiryDate,
                                              card.cvv, card.hmac)>>)
    /\ UNCHANGED <<store, payments, idx, triggers, opening>>

\* models.Card as the service returns it: the row's id with its fields.
Listed(id, card) == [id |-> id] @@ card

\* Service.CreateCard up to the repository call: FindAccountByID, the owner
\* check, the generated number, expiry and CVV, the key length check, both
\* encryptions, the CVV hash, the HMAC, the card value.
CreateCard(p, u, a) ==
    LET r == Request("card", u, a, a, 0, 0) IN
    /\ p \in Clients
    /\ pc[p] = "idle"
    /\ calls < MaxCalls
    /\ calls' = calls + 1
    /\ \/ Finish(p, r, "error")
       \/ accounts[a] # u /\ Finish(p, r, "forbidden")
       \/ /\ accounts[a] = u
          /\ \E digits \in RandomDigits, b \in RandomBytes, iv1 \in IVs, iv2 \in IVs :
                LET cardNumber == GenerateCardNumber(CardPrefix, CardLength, digits)
                    expiryDate == GenerateExpiryDate(now)
                    cvv == GenerateCVV(<<b, b, b>>)
                    encryptedCardNumber == Encrypt(cardNumber.value, EncryptionKey, iv1)
                    encryptedExpiryDate == Encrypt(expiryDate, EncryptionKey, iv2)
                    card == Card(a, encryptedCardNumber.value, encryptedExpiryDate.value,
                                 Bcrypt(cvv, <<b>>),
                                 GenerateHMAC(cardNumber.value, expiryDate, cvv, HMACSecret))
                IN  IF \/ cardNumber.err # ""
                       \/ Len(EncryptionKey) # 32
                       \/ encryptedCardNumber.err # ""
                       \/ encryptedExpiryDate.err # ""
                    THEN Finish(p, r, "error")
                    ELSE Proceed(p, r, "card",
                                 <<card, Card(a, cardNumber.value, expiryDate,
                                              card.cvv, card.hmac)>>)
    /\ UNCHANGED <<store, payments, idx, triggers, opening>>

\* As InsertCard, had the row been written although the call reports the
\* error.
InsertCardAnyway(p) ==
    /\ p \in Clients
    /\ pc[p] = "card"
    /\ cards' = Append(cards, Head(legs[p]))
    /\ \/ Finish(p, req[p], "error")
       \/ Finish(p, [req[p] EXCEPT !.id = Len(cards) + 1,
                                   !.result = <<Listed(Len(cards) + 1, legs[p][2])>>], "ok")
    /\ UNCHANGED <<balance, transactions, credits, schedules, now, crypto, annuity, tags, accounts, payments, idx,
                   calls, triggers, opening>>

\* Repository.CreateCard (one INSERT on r.db, committed at once) and the
\* return of Service.CreateCard: the card with CardNumber and ExpiryDate set
\* back to the plaintext.
InsertCard(p) ==
    /\ p \in Clients
    /\ pc[p] = "card"
    /\ \/ /\ Finish(p, req[p], "error")
          /\ UNCHANGED cards
       \/ /\ cards' = Append(cards, Head(legs[p]))
          /\ Finish(p, [req[p] EXCEPT !.id = Len(cards) + 1,
                                      !.result = <<Listed(Len(cards) + 1, legs[p][2])>>], "ok")
    /\ UNCHANGED <<balance, transactions, credits, schedules, now, crypto, annuity, tags, accounts, payments, idx,
                   calls, triggers, opening>>

\* The ids of a set of rows, the largest first: ORDER BY c.created_at DESC of
\* rows inserted one after the other.
RECURSIVE Descending(_)
Descending(ids) ==
    IF ids = {} THEN <<>>
    ELSE LET top == CHOOSE i \in ids : \A j \in ids : j <= i
         IN  <<top>> \o Descending(ids \ {top})

\* Repository.ListCards: the cards of accounts of userID, of accountID alone
\* when it is not 0, newest first, limit rows from row offset on.
SelectCards(userID, accountID, limit, offset) ==
    LET ids == Descending({i \in 1..Len(cards) :
                    /\ accounts[cards[i].account] = userID
                    /\ accountID # 0 => cards[i].account = accountID})
        last == IF offset + limit < Len(ids) THEN offset + limit ELSE Len(ids)
    IN  [k \in 1..(last - offset) |-> Listed(ids[offset + k], cards[ids[offset + k]])]

\* As DecryptCards, had the loop gone on ("continue") past a card that does
\* not decrypt.
RECURSIVE DecryptCardsSkipping(_, _)
DecryptCardsSkipping(page, key) ==
    IF page = <<>> THEN Returned(<<>>)
    ELSE LET card == Head(page)
             decryptedCardNumber == Decrypt(card.number, key)
             decryptedExpiryDate == Decrypt(card.expiry, key)
             rest == DecryptCardsSkipping(Tail(page), key)
         IN  IF decryptedCardNumber.err # "" \/ decryptedExpiryDate.err # "" THEN rest
             ELSE Returned(<<[card EXCEPT !.number = decryptedCardNumber.value,
                                          !.expiry = decryptedExpiryDate.value]>>
                           \o rest.value)

\* Service.ListCards, "Decrypt card_number and expiry_date": the page with
\* both fields of every card decrypted, or the error of the first Decrypt
\* that fails.
RECURSIVE DecryptCards(_, _)
DecryptCards(page, key) ==
    IF page = <<>> THEN Returned(<<>>)
    ELSE LET card == Head(page)
             decryptedCardNumber == Decrypt(card.number, key)
             decryptedExpiryDate == Decrypt(card.expiry, key)
             rest == DecryptCards(Tail(page), key)
         IN  IF decryptedCardNumber.err # "" THEN Failed("failed to decrypt card number")
             ELSE IF decryptedExpiryDate.err # "" THEN Failed("failed to decrypt expiry date")
             ELSE IF rest.err # "" THEN rest
             ELSE Returned(<<[card EXCEPT !.number = decryptedCardNumber.value,
                                          !.expiry = decryptedExpiryDate.value]>>
                           \o rest.value)

\* Service.ListCards from Repository.ListCards (one query) on: the key length
\* check and the decryption of the page.
Page(p, r) ==
    LET page == SelectCards(r.user, r.account, IF r.limit <= 0 THEN 10 ELSE r.limit,
                            IF r.offset < 0 THEN 0 ELSE r.offset)
        decrypted == DecryptCards(page, EncryptionKey)
    IN  \/ Finish(p, r, "error")
        \/ IF Len(EncryptionKey) # 32 THEN Finish(p, r, "error")
           ELSE IF decrypted.err # "" THEN Finish(p, r, "corrupt")
           ELSE Finish(p, [r EXCEPT !.result = decrypted.value], "ok")

\* Service.ListCards: the pagination defaults and, when an account is named,
\* FindAccountByID and the owner check; when none is, the call is at
\* Repository.ListCards at once.
ListCards(p, u, a, limit, offset) ==
    LET r == [Request("list", u, a, a, 0, 0) EXCEPT !.limit = limit, !.offset = offset] IN
    /\ p \in Clients
    /\ pc[p] = "idle"
    /\ calls < MaxCalls
    /\ calls' = calls + 1
    /\ IF a = 0 THEN Page(p, r)
       ELSE \/ Finish(p, r, "error")
            \/ accounts[a] # u /\ Finish(p, r, "forbidden")
            \/ accounts[a] = u /\ Proceed(p, r, "list", <<>>)
    /\ UNCHANGED <<store, payments, idx, triggers, opening>>

\* Service.ListCards for a named account, after the owner check:
\* Repository.ListCards and the decryption of the page.
ListPage(p) ==
    /\ p \in Clients
    /\ pc[p] = "list"
    /\ Page(p, req[p])
    /\ UNCHANGED <<store, payments, idx, calls, triggers, opening>>

\* ---------------------------------------------------------------- settlement sweep
\* The cron entry "@every 24h" fires: cron starts processPendingPayments in
\* a goroutine of its own.
Trigger(s) ==
    /\ s \in Sweeps
    /\ pc[s] = "idle"
    /\ triggers < MaxTriggers
    /\ triggers' = triggers + 1
    /\ pc' = [pc EXCEPT ![s] = "fetch"]
    /\ UNCHANGED <<store, req, legs, txbuf, payments, idx, calls, opening, history>>

\* As Pending, had the query left out "payment_date <= $1".
PendingNotDue == {i \in 1..Len(schedules) : ~schedules[i].paid}

\* As Pending, had the query left out "paid = FALSE".
PendingPaidToo == {i \in 1..Len(schedules) : schedules[i].date <= now}

\* The rows Repository.GetPendingPayments selects: unpaid, due today or
\* earlier.
Pending == {i \in 1..Len(schedules) : ~schedules[i].paid /\ schedules[i].date <= now}

\* ORDER BY payment_date ASC: every order of the selected rows with
\* non-decreasing dates.
PendingOrders ==
    {q \in [1..Cardinality(Pending) -> Pending] :
        /\ \A i, j \in DOMAIN q : i # j => q[i] # q[j]
        /\ \A i, j \in DOMAIN q : i < j => schedules[q[i]].date <= schedules[q[j]].date}

\* models.PaymentSchedule as rows.Scan fills it
Scanned(i) == [id |-> i] @@ schedules[i]

\* processPendingPayments up to the loop: Repository.GetPendingPayments; on
\* failure the sweep returns.
GetPendingPayments(s) ==
    /\ s \in Sweeps
    /\ pc[s] = "fetch"
    /\ \/ /\ pc' = [pc EXCEPT ![s] = "idle"]
          /\ UNCHANGED payments
       \/ \E q \in PendingOrders :
            /\ payments' = [payments EXCEPT ![s] = [i \in DOMAIN q |-> Scanned(q[i])]]
            /\ pc' = [pc EXCEPT ![s] = IF q = <<>> THEN "idle" ELSE "credit"]
    /\ UNCHANGED <<store, req, legs, txbuf, idx, calls, triggers, opening, history>>

\* "continue", or the end of the loop body: the range loop moves on to the
\* next entry, and after the last one the sweep returns.
Continue(s) ==
    /\ IF idx[s] = Len(payments[s])
       THEN /\ pc' = [pc EXCEPT ![s] = "idle"]
            /\ payments' = [payments EXCEPT ![s] = <<>>]
            /\ idx' = [idx EXCEPT ![s] = 1]
       ELSE /\ pc' = [pc EXCEPT ![s] = "credit"]
            /\ payments' = payments
            /\ idx' = [idx EXCEPT ![s] = @ + 1]
    /\ legs' = [legs EXCEPT ![s] = <<>>]
    /\ txbuf' = [txbuf EXCEPT ![s] = <<>>]
    /\ UNCHANGED <<req, history>>

\* The entry the loop is at.
Current(s) == payments[s][idx[s]]

\* processPendingPayments, "Get credit to find account_id":
\* Repository.FindCreditByID.
FindCreditByID(s) ==
    /\ s \in Sweeps
    /\ pc[s] = "credit"
    /\ \/ Continue(s)
       \/ /\ pc' = [pc EXCEPT ![s] = "balance"]
          /\ UNCHANGED <<payments, idx, req, legs, txbuf, history>>
    /\ UNCHANGED <<store, calls, triggers, opening>>

\* The float64 of the literals 0.10 and 0.20.
Tenth == Money(100)
Fifth == Money(200)

\* As PenaltyOf, had the rate been 0.20.
PenaltyOfFifth(amount) == FMul(amount, Fifth)

\* "penalty := payment.Amount * 0.10", of the float64 amount
PenaltyOf(amount) == FMul(amount, Tenth)

\* As SweepCheck, had the balance been read once, before the first sweep, and
\* not for each entry.
SweepCheckReadOnce(s) ==
    LET payment == Current(s)
        account == credits[payment.credit].account
        totalAmount == payment.amount + payment.penalty
        tx == Transaction(account, -totalAmount, "credit_payment", payment.id) IN
    /\ s \in Sweeps
    /\ pc[s] = "balance"
    /\ \/ Continue(s)
       \/ /\ IF ~FLess(Money(opening[account]), FAdd(Money(payment.amount), Money(payment.penalty)))
             THEN /\ pc' = [pc EXCEPT ![s] = "begin"]
                  /\ legs' = [legs EXCEPT ![s] = <<tx>>]
             ELSE /\ pc' = [pc EXCEPT ![s] = "penalty"]
                  /\ legs' = legs
          /\ UNCHANGED <<payments, idx, req, txbuf, history>>
    /\ UNCHANGED <<store, calls, triggers, opening>>

\* processPendingPayments, "Check account balance": GetAccountBalance on
\* r.db, the float64 comparison balance >= payment.Amount + payment.Penalty,
\* and either the transaction value of the payment or the penalty branch.
\* The three numbers are the float64 of the decimals the store holds; the
\* amount of the transaction is stored as the decimal of the sum.
SweepCheck(s) ==
    LET payment == Current(s)
        account == credits[payment.credit].account
        totalAmount == payment.amount + payment.penalty
        tx == Transaction(account, -totalAmount, "credit_payment", payment.id) IN
    /\ s \in Sweeps
    /\ pc[s] = "balance"
    /\ \/ Continue(s)
       \/ /\ IF ~FLess(Money(balance[account]), FAdd(Money(payment.amount), Money(payment.penalty)))
             THEN /\ pc' = [pc EXCEPT ![s] = "begin"]
                  /\ legs' = [legs EXCEPT ![s] = <<tx>>]
             ELSE /\ pc' = [pc EXCEPT ![s] = "penalty"]
                  /\ legs' = legs
          /\ UNCHANGED <<payments, idx, req, txbuf, history>>
    /\ UNCHANGED <<store, calls, triggers, opening>>

\* models.PaymentSchedule with Amount and Penalty as the float64 that
\* rows.Scan made of the decimals of the row.
Float64s(payment) == [payment EXCEPT !.amount = Money(@), !.penalty = Money(@)]

\* payment.Paid = true
MarkedPaid(payment) == [payment EXCEPT !.paid = TRUE]

\* "payment.Penalty += penalty", in float64
Penalised(payment) == [payment EXCEPT !.penalty = FAdd(@, PenaltyOf(payment.amount))]

\* The row Repository.UpdatePaymentSchedule leaves: amount, paid and penalty
\* are set from the model value, the float64 ones as the columns keep them.
Updated(row, payment) ==
    [row EXCEPT !.amount = Kept(payment.amount), !.paid = payment.paid,
                !.penalty = Kept(payment.penalty)]

\* processPendingPayments, "Update payment status" and "Apply penalty":
\* Repository.UpdatePaymentSchedule (one UPDATE on r.db) with the entry as
\* the sweep holds it; whether it fails or not the loop goes on.
UpdatePaymentSchedule(s) ==
    LET payment == IF pc[s] = "markpaid" THEN MarkedPaid(Float64s(Current(s)))
                   ELSE Penalised(Float64s(Current(s))) IN
    /\ s \in Sweeps
    /\ pc[s] \in {"markpaid", "penalty"}
    /\ \/ UNCHANGED schedules
       \/ schedules' = [schedules EXCEPT ![payment.id] = Updated(@, payment)]
    /\ Continue(s)
    /\ UNCHANGED <<balance, transactions, credits, cards, now, crypto, annuity, tags, accounts, calls, triggers, opening>>

\* ---------------------------------------------------------------- repository
\* As Return, had the sweep left its loop ("return") when the withdrawal
\* failed.
ReturnLeavingLoop(p, outcome) ==
    IF p \in Clients
    THEN /\ Finish(p, req[p], outcome)
         /\ UNCHANGED <<payments, idx>>
    ELSE /\ IF outcome = "ok"
            THEN /\ pc' = [pc EXCEPT ![p] = "markpaid"]
                 /\ UNCHANGED <<payments, idx>>
            ELSE /\ pc' = [pc EXCEPT ![p] = "idle"]
                 /\ payments' = [payments EXCEPT ![p] = <<>>]
                 /\ idx' = [idx EXCEPT ![p] = 1]
         /\ legs' = [legs EXCEPT ![p] = <<>>]
         /\ txbuf' = [txbuf EXCEPT ![p] = <<>>]
         /\ UNCHANGED <<req, history>>

\* Repository.Deposit / Withdraw / Transfer return: to the service call of a
\* request goroutine, which returns in turn; in a sweep, to "Update payment
\* status" when the withdrawal succeeded and to the next entry when not.
Return(p, outcome) ==
    IF p \in Clients
    THEN /\ Finish(p, req[p], outcome)
         /\ UNCHANGED <<payments, idx>>
    ELSE IF outcome = "ok"
         THEN /\ pc' = [pc EXCEPT ![p] = "markpaid"]
              /\ legs' = [legs EXCEPT ![p] = <<>>]
              /\ txbuf' = [txbuf EXCEPT ![p] = <<>>]
              /\ UNCHANGED <<payments, idx, req, history>>
         ELSE Continue(p)

\* r.db.BeginTx; on failure the repository function returns the error.
BeginTx(p) ==
    /\ pc[p] = "begin"
    /\ \/ /\ pc' = [pc EXCEPT ![p] = "create"]
          /\ UNCHANGED <<req, legs, txbuf, history, payments, idx>>
       \/ Return(p, "error")
    /\ UNCHANGED <<store, calls, triggers, opening>>

\* As TxStatements, had CreateTransaction left out the UPDATE of the balance.
TxStatementsInsertOnly(t) == << [kind |-> "insert", tx |-> t] >>

\* The statements Repository.CreateTransaction executes on tx for t: the
\* INSERT into bank.transactions and the UPDATE balance = balance + amount.
TxStatements(t) ==
    << [kind |-> "insert", tx |-> t],
       [kind |-> "update", account |-> t.account, delta |-> t.amount] >>

\* The goroutine's open sql.Tx holds the row lock of account a: it has
\* executed an UPDATE of the row and has neither committed nor rolled back.
Locks(q, a) ==
    \E i \in DOMAIN txbuf[q] : txbuf[q][i].kind = "update" /\ txbuf[q][i].account = a

\* The next statement of CreateTransaction is executed on tx, or fails: the
\* repository function returns the error and its deferred tx.Rollback runs.
\* An UPDATE waits while another transaction holds the lock of the row.
Execute(p, ws, next) ==
    \/ /\ \A w \in {ws[i] : i \in DOMAIN ws} :
             w.kind = "update" => \A q \in Procs \ {p} : ~Locks(q, w.account)
       /\ txbuf' = [txbuf EXCEPT ![p] = @ \o ws]
       /\ pc' = [pc EXCEPT ![p] = next]
    \/ /\ txbuf' = txbuf
       /\ pc' = [pc EXCEPT ![p] = "rollback"]

\* As CreateTransaction, had it executed its statements on r.db instead of
\* tx: each is committed at once.
CreateTransactionOnDb(p) ==
    LET ts == TxStatements(Head(legs[p]))
        ws == IF pc[p] = "create" THEN SubSeq(ts, 1, 1) ELSE SubSeq(ts, 2, Len(ts))
        st == ApplyWrites([balance |-> balance, transactions |-> transactions], ws) IN
    /\ pc[p] \in {"create", "update"}
    /\ \/ /\ balance' = st.balance
          /\ transactions' = st.transactions
          /\ IF pc[p] = "create"
             THEN /\ pc' = [pc EXCEPT ![p] = "update"]
                  /\ legs' = legs
             ELSE /\ pc' = [pc EXCEPT ![p] = IF Tail(legs[p]) = <<>> THEN "commit"
                                              ELSE "create"]
                  /\ legs' = [legs EXCEPT ![p] = Tail(@)]
       \/ /\ pc' = [pc EXCEPT ![p] = "rollback"]
          /\ UNCHANGED <<balance, transactions, legs>>
    /\ UNCHANGED <<req, txbuf, history, payments, idx>>
    /\ UNCHANGED <<credits, schedules, cards, now, crypto, annuity, tags, accounts, calls, triggers, opening>>

\* Repository.CreateTransaction for the next transaction value of the call:
\* the INSERT into bank.transactions, then the UPDATE of the balance, one
\* round trip each on tx.
CreateTransaction(p) ==
    LET ts == TxStatements(Head(legs[p])) IN
    /\ pc[p] \in {"create", "update"}
    /\ IF pc[p] = "create"
       THEN /\ Execute(p, SubSeq(ts, 1, 1), "update")
            /\ legs' = legs
       ELSE /\ Execute(p, SubSeq(ts, 2, Len(ts)),
                       IF Tail(legs[p]) = <<>> THEN "commit" ELSE "create")
            /\ legs' = IF pc'[p] = "rollback" THEN legs ELSE [legs EXCEPT ![p] = Tail(@)]
    /\ UNCHANGED <<req, history, payments, idx>>
    /\ UNCHANGED <<store, calls, triggers, opening>>

\* The deferred tx.Rollback after a statement failed: the open transaction is
\* discarded and the repository function returns the error.
Rollback(p) ==
    /\ pc[p] = "rollback"
    /\ Return(p, "rollback")
    /\ UNCHANGED <<store, calls, triggers, opening>>

\* tx.Commit: every statement of the open transaction takes effect at once,
\* or (the commit failed, deferred Rollback) none does.
Commit(p) ==
    /\ pc[p] = "commit"
    /\ \/ /\ LET st == ApplyWrites([balance |-> balance, transactions |-> transactions],
                                   txbuf[p]) IN
               /\ balance' = st.balance
               /\ transactions' = st.transactions
          /\ Return(p, "ok")
       \/ /\ UNCHANGED <<balance, transactions>>
          /\ Return(p, "rollback")
    /\ UNCHANGED <<credits, schedules, cards, now, crypto, annuity, tags, accounts, calls, triggers, opening>>

\* ---------------------------------------------------------------- behaviour
\* The credit the store holds at the start, issued to user 1 against
\* account 1.
FirstCredit == Credit(1, 1, 20000, 20, 3)

\* When it was issued: on 31 October 2000.
FirstIssue == Clock(Date(10, 31), [i \in 1..FirstCredit.term |-> 0])

\* The installment of the first credit.
FirstPayment == calculateAnnuityPayment(FirstCredit.amount, FirstCredit.rate, FirstCredit.term)

\* The store after accounts 1 and 2 were opened, account 1 was funded by one
\* deposit of an amount of funding and the credit was issued at issue; no
\* call and no sweep is running.
Started(credit, issue, funding) ==
    /\ \E f \in funding :
        /\ opening = [a \in Accounts |-> IF a = 1 THEN f ELSE 0]
        /\ transactions = SetToBag({Transaction(1, f, "deposit", 0)})
    /\ balance = opening
    /\ credits = <<credit>>
    /\ schedules = generatePaymentSchedule(1, credit, issue)
    /\ cards = <<>>
    /\ now \in Today
    /\ crypto = NoCrypto
    /\ annuity = NoAnnuity
    /\ tags = {}
    /\ accounts = [a \in Accounts |-> a]
    /\ pc = [p \in Procs |-> "idle"]
    /\ req = [p \in Clients |-> NoReq]
    /\ legs = [p \in Procs |-> <<>>]
    /\ txbuf = [p \in Procs |-> <<>>]
    /\ payments = [s \in Sweeps |-> <<>>]
    /\ idx = [s \in Sweeps |-> 1]
    /\ calls = 0
    /\ triggers = 0
    /\ history = EmptyBag

Init == Started(FirstCredit, FirstIssue, Funding)

\* A store whose credit, of 4.82 over one month at 20%, has the installment
\* 4.90, issued on 31 October 2000 as well, and whose account 1 holds 0.39.
ArrearsCredit == Credit(1, 1, 4820, 20, 1)
ArrearsIssue == Clock(Date(10, 31), [i \in 1..ArrearsCredit.term |-> 0])
ArrearsFunding == {390}
InitArrears == Started(ArrearsCredit, ArrearsIssue, ArrearsFunding)

LedgerCall(p) ==
    \E u \in Users, a \in Accounts, amt \in Amounts :
        \/ Deposit(p, u, a, amt)
        \/ Withdraw(p, u, a, amt)
        \/ \E to \in Accounts : Transfer(p, u, a, to, amt)

CreditCall(p) ==
    \E u \in Users, a \in Accounts, amt \in Principals, term \in 1..MaxTerm :
        CreateCredit(p, u, a, amt, term)

RepositoryStep(p) == BeginTx(p) \/ CreateTransaction(p) \/ Rollback(p) \/ Commit(p)

LedgerStep(p) ==
    WithdrawCheck(p) \/ TransferVerify(p) \/ TransferCheck(p) \/ RepositoryStep(p)

CreditStep(p) == GetKeyRate(p) \/ InsertCredit(p) \/ CreatePaymentSchedule(p)

SweepStep(s) ==
    \/ GetPendingPayments(s)
    \/ FindCreditByID(s)
    \/ SweepCheck(s)
    \/ RepositoryStep(s)
    \/ UpdatePaymentSchedule(s)

\* Request goroutines serving ledger calls.
NextLedger == \E p \in Clients : LedgerCall(p) \/ LedgerStep(p)

TransferCall(p) ==
    \E u \in Users, a \in Accounts, to \in Accounts, amt \in Amounts :
        Transfer(p, u, a, to, amt)

\* Request goroutines serving transfers only.
NextTransfer ==
    \E p \in Clients :
        TransferCall(p) \/ TransferVerify(p) \/ TransferCheck(p) \/ RepositoryStep(p)

\* Request goroutines serving credit issuance.
NextCredit == \E p \in Clients : CreditCall(p) \/ CreditStep(p)

\* The cron entry and the sweeps it starts.
NextSweep == \E s \in Sweeps : Trigger(s) \/ SweepStep(s)

\* Sweeps in succession: the cron entry fires only after the sweep it
\* started before has returned.
NextSuccession ==
    \E s \in Sweeps : (Trigger(s) /\ \A t \in Sweeps : pc[t] = "idle") \/ SweepStep(s)

\* Deposits of the owner into the funding account between sweeps in
\* succession.
NextArrears ==
    \/ \E p \in Clients :
          \/ calls < MixCalls /\ \E amt \in Amounts : Deposit(p, 1, 1, amt)
          \/ RepositoryStep(p)
    \/ \E s \in Sweeps : (Trigger(s) /\ \A t \in Sweeps : pc[t] = "idle") \/ SweepStep(s)

\* Ledger calls of the request goroutines beside one sweep goroutine.
Next ==
    \/ \E p \in Clients : (calls < MixCalls /\ LedgerCall(p)) \/ LedgerStep(p)
    \/ (triggers < MixTriggers /\ Trigger("s1")) \/ SweepStep("s1")

\* Uses of calculateAnnuityPayment.
NextAnnuity ==
    \E principal \in AnnuityPrincipals, annualRate \in AnnualRates, termMonths \in 1..MaxTerm :
        Annuity(principal, annualRate, termMonths)

\* Uses of the integrity tag of a credit.
NextTag ==
    \E userID \in TagUsers, accountID \in TagAccounts, amount \in TagAmounts :
        TagCredit(userID, accountID, amount)

\* Uses of Encrypt and Decrypt.
NextCrypto ==
    \/ \E data \in Texts, key \in Keys \cup BadKeys, iv \in IVs : EncryptData(data, key, iv)
    \/ DecryptData
    \/ \E key \in BadKeys : DecryptUnder(key)

\* A service call with arguments of every kind: any caller, any account there
\* is, amounts and terms on both sides of the validation.
EntryCall(p) ==
    \E u \in Users, a \in DOMAIN accounts :
        \/ CreateAccount(p, u)
        \/ \E amt \in Amounts \cup BadAmounts :
              \/ Deposit(p, u, a, amt)
              \/ Withdraw(p, u, a, amt)
              \/ \E to \in DOMAIN accounts : Transfer(p, u, a, to, amt)
        \/ \E amt \in Principals \cup BadAmounts,
              term \in (1..MaxTerm) \cup BadTerms \cup LongTerms :
              CreateCredit(p, u, a, amt, term)
        \/ CreateCard(p, u, a)

\* Request goroutines serving such calls.  The amortization of a term beyond
\* MaxTerm is outside the integers of the model: such an issuance is followed
\* up to the INSERT of the credit.
NextEntry ==
    \E p \in Clients :
        \/ calls < EntryCalls /\ EntryCall(p)
        \/ LedgerStep(p)
        \/ GetKeyRate(p)
        \/ req[p].term <= MaxTerm /\ InsertCredit(p)
        \/ CreatePaymentSchedule(p)
        \/ InsertCard(p)

\* Request goroutines issuing and listing cards.
CardCall(p) ==
    \E u \in Users :
        \/ /\ Len(cards) + Cardinality({q \in Clients : pc[q] = "card"}) < MaxCards
           /\ \E a \in Accounts : CreateCard(p, u, a)
        \/ \E a \in Accounts \cup {0}, limit \in Limits, offset \in Offsets :
              ListCards(p, u, a, limit, offset)

NextCards == \E p \in Clients : CardCall(p) \/ InsertCard(p) \/ ListPage(p)

Spec == Init /\ [][Next]_vars
SpecCards == Init /\ [][NextCards]_vars
SpecAnnuity == Init /\ [][NextAnnuity]_vars
SpecTag == Init /\ [][NextTag]_vars
SpecEntry == Init /\ [][NextEntry]_vars
SpecCrypto == Init /\ [][NextCrypto]_vars
SpecLedger == Init /\ [][NextLedger]_vars
SpecTransfer == Init /\ [][NextTransfer]_vars
SpecCredit == Init /\ [][NextCredit]_vars
SpecSweep == Init /\ [][NextSweep]_vars
SpecSuccession == Init /\ [][NextSuccession]_vars
SpecArrears == InitArrears /\ [][NextArrears]_vars
\* A goroutine that can take a step takes one: every store call returns.
SpecSweepFair == SpecSweep /\ \A s \in Sweeps : WF_vars(SweepStep(s))

\* ---------------------------------------------------------------- properties
Idle == \A p \in Procs : pc[p] = "idle"

\* The step is one of goroutine p.
Moved(p) == pc'[p] # pc[p] \/ txbuf'[p] # txbuf[p] \/ legs'[p] # legs[p]

\* The step ends the call goroutine p serves, with outcome o.
Ended(p, o) == history' = history (+) SetToBag({req[p] @@ [outcome |-> o]})

Calls(op, outcome) == {r \in BagToSet(history) : r.op = op /\ r.outcome = outcome}

Rows(type) == {t \in BagToSet(transactions) : t.type = type}

RECURSIVE SumRows(_)
SumRows(S) ==
    IF S = {} THEN 0
    ELSE LET t == CHOOSE x \in S : TRUE
         IN  t.amount * CopiesIn(t, transactions) + SumRows(S \ {t})

\* The sum of the amounts of the committed transactions of account a.
Ledger(a) == SumRows({t \in BagToSet(transactions) : t.account = a})

\* C1: no account balance is negative in any committed state, whatever the
\* interleaving of the Withdraw and Transfer calls of the request goroutines.
NoNegativeBalance == \A a \in Accounts : balance[a] >= 0

\* The two legs of the transfer r.
TransferOut(r) == Transaction(r.account, -r.amount, "transfer_out", r.to)
TransferIn(r) == Transaction(r.to, r.amount, "transfer_in", r.account)

\* Every committed transfer_out row has its transfer_in row and conversely.
LegsPaired ==
    \A from \in Accounts, to \in Accounts, amt \in Amounts :
        LET r == Request("transfer", accounts[from], from, to, amt, 0)
        IN  CopiesIn(TransferOut(r), transactions) = CopiesIn(TransferIn(r), transactions)

\* A step of a goroutine serving a transfer either leaves balances and
\* transactions as they are, and if it ends the call the call failed, or it is
\* the commit: both rows appear and both balances move in that one step.
TransferStep(p) ==
    LET r == req[p] IN
    \/ /\ UNCHANGED <<balance, transactions>>
       /\ pc'[p] = "idle" => \E o \in {"error", "insufficient", "rollback"} : Ended(p, o)
    \/ /\ pc[p] = "commit" /\ pc'[p] = "idle" /\ Ended(p, "ok")
       /\ transactions' = transactions (+) SetToBag({TransferOut(r)})
                                       (+) SetToBag({TransferIn(r)})
       /\ balance' = [[balance EXCEPT ![r.account] = @ - r.amount]
                         EXCEPT ![r.to] = @ + r.amount]

\* C2: Transfer is atomic: in every committed state the two legs of a transfer
\* are both there or both missing, the commit is the only step of a transfer
\* that changes a balance or the transactions, and a transfer that fails
\* (first leg, second leg or commit) changes neither.
TransferAtomic ==
    /\ []LegsPaired
    /\ [][\A p \in Clients : (req[p].op = "transfer" /\ Moved(p)) => TransferStep(p)]_vars

\* A transfer was committed, and another was rolled back after its
\* transaction had been opened.
TransferAtomicWitness ==
    /\ Calls("transfer", "ok") # {}
    /\ Calls("transfer", "rollback") # {}
    /\ Rows("transfer_out") # {}

\* C3: in every committed state each account's balance is its opening balance
\* (0) plus the amounts of the committed transactions recorded for it.
BalanceIsLedger == \A a \in Accounts : balance[a] = Ledger(a)

\* A sweep has debited an installment and a ledger call has moved money.
BalanceIsLedgerWitness ==
    /\ Rows("credit_payment") # {}
    /\ Rows("withdrawal") \cup Rows("transfer_out") # {}
    /\ Idle

\* The completed ledger calls that a serial execution has to account for:
\* those that succeeded and those refused for insufficient funds.
Served == {r \in BagToSet(history) : r.outcome \in {"ok", "insufficient"}}

RECURSIVE Count(_)
Count(S) ==
    IF S = {} THEN 0
    ELSE LET r == CHOOSE x \in S : TRUE IN CopiesIn(r, history) + Count(S \ {r})

\* Every order in which the served calls can be run one after the other.
Orders ==
    {q \in [1..Count(Served) -> Served] :
        \A r \in Served : Cardinality({i \in DOMAIN q : q[i] = r}) = CopiesIn(r, history)}

\* What call r does to the balances b when it runs alone.
Serially(b, r) ==
    IF r.op = "deposit" THEN [b EXCEPT ![r.account] = @ + r.amount]
    ELSE IF b[r.account] < r.amount THEN b
    ELSE IF r.op = "withdraw" THEN [b EXCEPT ![r.account] = @ - r.amount]
    ELSE [[b EXCEPT ![r.account] = @ - r.amount] EXCEPT ![r.to] = @ + r.amount]

\* The outcome of call r when it runs alone on the balances b.
SerialOutcome(b, r) ==
    IF r.op # "deposit" /\ b[r.account] < r.amount THEN "insufficient" ELSE "ok"

\* Running the calls of q one after the other from the balances b gives every
\* call the outcome it had and ends with the balances of the store.
RECURSIVE SerialRun(_, _)
SerialRun(b, q) ==
    IF q = <<>> THEN b = balance
    ELSE /\ Head(q).outcome = SerialOutcome(b, Head(q))
         /\ SerialRun(Serially(b, Head(q)), Tail(q))

\* C4: when the concurrent Deposit, Withdraw and Transfer calls have returned,
\* the balances and the outcomes are those of some serial execution of the
\* same calls.
Serializable == Idle => \E q \in Orders : SerialRun(opening, q)

\* C5: when CreateCredit has reported a failure the store holds neither the
\* credit row of that call nor any schedule row of it.
CreditAllOrNothing ==
    \A r \in BagToSet(history) :
        (r.op = "credit" /\ r.outcome # "ok") =>
            /\ r.id \notin 1..Len(credits)
            /\ \A i \in 1..Len(schedules) : schedules[i].credit # r.id

\* The sweep goroutine s is inside the loop over its entries.
InLoop(s) == pc[s] \notin {"idle", "fetch"}

\* The account the entry of s is paid from, and what the entry costs.
FundingAccount(s) == credits[Current(s).credit].account
TotalAmount(s) == Current(s).amount + Current(s).penalty

\* The transaction that pays the entry s is at.
PaymentOf(s) ==
    Transaction(FundingAccount(s), -TotalAmount(s), "credit_payment", Current(s).id)

\* gain, in mills, is one increment of an installment of amount: a tenth of
\* it as the store keeps it, to the cent, so within half a cent of the tenth.
OneIncrement(gain, amount) == 10 * gain - amount \in -50..50

\* C6, as first stated: of two sweeps in immediate succession neither debits
\* the funding account for an entry that is paid already, and when a sweep
\* returns every entry of its list that is still unpaid has gained exactly
\* one increment.
SweepAccruesOnce ==
    [][\A s \in Sweeps :
        /\ (pc[s] = "commit" /\ pc'[s] = "markpaid") => ~schedules[Current(s).id].paid
        /\ (InLoop(s) /\ pc'[s] = "idle") =>
              \A k \in DOMAIN payments[s] :
                  LET e == payments[s][k]
                  IN  ~schedules'[e.id].paid =>
                         OneIncrement(schedules'[e.id].penalty - e.penalty, e.amount)]_vars

\* C6: of two sweeps in immediate succession neither debits the funding
\* account for an entry that is paid already; a sweep whose penalty update
\* goes through raises the stored penalty by exactly one increment, a tenth
\* of the installment to the cent; and when a sweep returns every entry of
\* its list has gained that one increment or, a call to the store having
\* failed or the entry being paid, none, never more.
SweepOnce ==
    [][\A s \in Sweeps :
        /\ (pc[s] = "commit" /\ pc'[s] = "markpaid") => ~schedules[Current(s).id].paid
        /\ (pc[s] = "penalty" /\ schedules' # schedules) =>
              LET i == Current(s).id
              IN  OneIncrement(schedules'[i].penalty - schedules[i].penalty,
                               schedules[i].amount)
        /\ (InLoop(s) /\ pc'[s] = "idle") =>
              \A k \in DOMAIN payments[s] :
                  LET e == payments[s][k]
                      gain == schedules'[e.id].penalty - e.penalty
                  IN  gain = 0 \/ OneIncrement(gain, e.amount)]_vars

\* Two sweeps have run one after the other: the first paid entry 1 and
\* penalised entry 2, the second penalised entry 2 once more and debited
\* nothing; entry 2 carries two increments, each a tenth of its installment
\* to the cent.
SweepOnceWitness ==
    /\ triggers = 2
    /\ Idle
    /\ schedules[1].paid
    /\ ~schedules[2].paid
    /\ \E first \in 1..schedules[2].penalty :
          /\ OneIncrement(first, schedules[2].amount)
          /\ OneIncrement(schedules[2].penalty - first, schedules[2].amount)
    /\ BagCardinality(transactions) = 2

\* C7: at most one execution of the sweep is running at any time.
AtMostOneSweep == Cardinality({s \in Sweeps : pc[s] # "idle"}) <= 1

\* C8: once a sweep has its list, it returns, it returns only from the last
\* entry of the list, and until then every step (a failed lookup, balance
\* read, debit or update included) stays at its entry or moves to the next
\* one.
FaultIsolation ==
    /\ \A s \in Sweeps : InLoop(s) ~> (pc[s] = "idle")
    /\ [][\A s \in Sweeps : (InLoop(s) /\ Moved(s)) =>
            IF pc'[s] = "idle"
            THEN idx[s] = Len(payments[s])
            ELSE /\ payments'[s] = payments[s]
                 /\ \/ idx'[s] = idx[s]
                    \/ idx'[s] = idx[s] + 1 /\ pc'[s] = "credit"]_vars

\* A sweep is at its second entry, and the first one was neither paid nor
\* penalised nor debited: a store call failed on it.
FaultIsolationWitness ==
    \E s \in Sweeps :
        /\ InLoop(s)
        /\ idx[s] = 2
        /\ LET e == payments[s][1] IN
              /\ schedules[e.id] = [x \in DOMAIN schedules[e.id] |-> e[x]]
              /\ \A t \in Rows("credit_payment") : t.ref # e.id

\* C9: a sweep that reads a balance of at least installment + penalty opens
\* the payment of the entry and does not take the penalty branch, and it
\* opens a payment only on such a balance; its commit adds that one
\* credit_payment row, debits the funding account by the total and leaves
\* the entry unpaid; an entry turns paid only in "Update payment status" of a
\* sweep whose payment of that entry is committed already, and that update
\* touches no balance, no transaction.
DebitThenPaid ==
    [][/\ \A i \in DOMAIN schedules :
            (~schedules[i].paid /\ schedules'[i].paid) =>
                \E s \in Sweeps : /\ pc[s] = "markpaid"
                                  /\ pc'[s] # pc[s]
                                  /\ Current(s).id = i
                                  /\ BagIn(PaymentOf(s), transactions)
       /\ \A s \in Sweeps :
            /\ (pc[s] = "balance" /\ balance[FundingAccount(s)] >= TotalAmount(s)) =>
                  pc'[s] # "penalty"
            /\ (pc[s] = "balance" /\ pc'[s] = "begin") =>
                  /\ balance[FundingAccount(s)] >= TotalAmount(s)
                  /\ legs'[s] = <<PaymentOf(s)>>
            /\ (pc[s] = "commit" /\ pc'[s] = "markpaid") =>
                  /\ transactions' = transactions (+) SetToBag({PaymentOf(s)})
                  /\ balance' = [balance EXCEPT ![FundingAccount(s)] = @ - TotalAmount(s)]
                  /\ schedules' = schedules
            /\ (pc[s] = "markpaid" /\ pc'[s] # pc[s]) =>
                  /\ UNCHANGED <<balance, transactions>>
                  /\ schedules' # schedules => schedules'[Current(s).id].paid]_vars

AtWithdrawCheck(p) == pc[p] = "balance" /\ req[p].op = "withdraw"

\* C11: a Withdraw that finds less on the account than its amount ends there:
\* it is refused for insufficient funds (or returns the error of the balance
\* read), and balances and transactions stay as they are.
WithdrawRefused ==
    [][\A p \in Clients :
        (AtWithdrawCheck(p) /\ balance[req[p].account] < req[p].amount /\ Moved(p)) =>
            /\ Ended(p, "insufficient") \/ Ended(p, "error")
            /\ pc'[p] = "idle"
            /\ UNCHANGED <<balance, transactions>>]_vars

\* Half of account 1 was withdrawn; the withdrawal after it, of more than
\* was left, was refused and the balance is what the first one left.
WithdrawRefusedWitness ==
    /\ Idle
    /\ opening[1] = 10000
    /\ balance[1] = 5000
    /\ Calls("withdraw", "ok") = {Request("withdraw", 1, 1, 1, 5000, 0) @@ [outcome |-> "ok"]}
    /\ Calls("withdraw", "insufficient") =
          {Request("withdraw", 1, 1, 1, 10000, 0) @@ [outcome |-> "insufficient"]}

\* The Deposit of the amount the Withdraw r takes from the same account by the
\* same caller, as history records it after it succeeded.
DepositBefore(r) == [r EXCEPT !.op = "deposit"] @@ [outcome |-> "ok"]

\* C12: when a Deposit and a Withdraw of the same amount on the same account
\* by its owner are all that was called and both succeeded, every balance is
\* what it was at the start; and the Withdraw that follows such a Deposit,
\* with nothing else called, is never refused for insufficient funds.
RoundTrip ==
    /\ [](\A r \in Calls("withdraw", "ok") :
            (Idle /\ history = SetToBag({r, DepositBefore(r)})) => balance = opening)
    /\ [][\A p \in Clients :
            (/\ AtWithdrawCheck(p)
             /\ history = SetToBag({DepositBefore(req[p])})
             /\ \A q \in Clients \ {p} : pc[q] = "idle"
             /\ Moved(p)) => ~Ended(p, "insufficient")]_vars

\* Account 2, empty at the start, was credited 5000 and debited 5000 by its
\* owner: it is empty again.
RoundTripWitness ==
    /\ Idle
    /\ history = SetToBag({Request("withdraw", 2, 2, 2, 5000, 0) @@ [outcome |-> "ok"],
                           Request("deposit", 2, 2, 2, 5000, 0) @@ [outcome |-> "ok"]})
    /\ balance = opening
    /\ BagCardinality(transactions) = 3

\* The transaction a Deposit or Withdraw r records.
LedgerRow(r) ==
    IF r.op = "deposit" THEN Transaction(r.account, r.amount, "deposit", 0)
    ELSE Transaction(r.account, -r.amount, "withdrawal", 0)

\* C13: a step of a Deposit or a Withdraw either leaves balances and
\* transactions as they are, and if it ends the call the call failed, or it is
\* the commit that ends the call with success: one row of the call's type
\* with +amount (deposit) or -amount (withdrawal) is added, the balance of
\* that account moves by the same amount, and nothing else changes.
LedgerEffect ==
    [][\A p \in Clients :
        (req[p].op \in {"deposit", "withdraw"} /\ Moved(p)) =>
            \/ /\ UNCHANGED <<balance, transactions>>
               /\ pc'[p] = "idle" =>
                     \E o \in {"error", "insufficient", "rollback"} : Ended(p, o)
            \/ /\ pc[p] = "commit" /\ pc'[p] = "idle" /\ Ended(p, "ok")
               /\ transactions' = transactions (+) SetToBag({LedgerRow(req[p])})
               /\ balance' = [balance EXCEPT ![req[p].account] = @ + LedgerRow(req[p]).amount]
               /\ UNCHANGED <<credits, schedules>>]_vars

\* A deposit to account 2 and a withdrawal from account 1 have succeeded.
LedgerEffectWitness ==
    /\ Idle
    /\ Calls("deposit", "ok") # {}
    /\ Calls("withdraw", "ok") # {}
    /\ balance[2] > opening[2]
    /\ balance[1] < opening[1]
    /\ Rows("deposit") # {} /\ Rows("withdrawal") # {}

\* C20: what Decrypt returns for the result of Encrypt of a non-empty string
\* under the same key is the string that was encrypted, without an error.
DecryptInvertsEncrypt ==
    (crypto.opened # NoResult /\ crypto.data # <<>>) =>
        /\ crypto.opened.err = ""
        /\ crypto.opened.value = crypto.data

\* The step starts a service call.
CallStarts == calls' # calls

\* The step starts a service call of goroutine p that goes on after its entry
\* checks.
Admitted(p) == CallStarts /\ pc'[p] # pc[p]

\* The caller of r owns the account r names (the source, for a transfer).
ByOwner(r) == accounts[r.account] = r.user

LedgerOps == {"deposit", "withdraw", "transfer"}

\* The calls that name an account of the caller.
AccountOps == LedgerOps \cup {"card", "credit"}

\* The step starts a service call of one of the kinds ops.
Starts(ops) ==
    /\ CallStarts
    /\ \/ \E p \in Clients : req'[p] # req[p] /\ req'[p].op \in ops
       \/ \E r \in BagToSet(history') : r.op \in ops /\ history' = history (+) SetToBag({r})

\* C14: a Deposit, Withdraw or Transfer with amount <= 0 fails: by its owner
\* with the validation error (or the error of an account lookup), by another
\* caller with the refusal of the owner check before it; such a call gets no
\* further than the lookup of the destination of a transfer, which precedes
\* the amount check, and the steps up to there change no balance and no
\* transaction.
AmountValidated ==
    /\ [](\A r \in BagToSet(history) :
            (r.op \in LedgerOps /\ r.amount <= 0) =>
                r.outcome \in (IF ByOwner(r) THEN {"invalid", "error"}
                               ELSE {"forbidden", "error"}))
    /\ [](\A p \in Clients :
            (req[p].op \in LedgerOps /\ req[p].amount <= 0) =>
                req[p].op = "transfer" /\ pc[p] = "verify")
    /\ [][(Starts(LedgerOps) \/ \E p \in Clients : pc[p] = "verify" /\ Moved(p)) =>
            UNCHANGED <<balance, transactions>>]_vars

\* The owner of account 1 asked to withdraw 0: refused as invalid, and the
\* store is as it was.
AmountValidatedWitness ==
    /\ Idle
    /\ history = SetToBag({Request("withdraw", 1, 1, 1, 0, 0) @@ [outcome |-> "invalid"]})
    /\ balance = opening
    /\ BagCardinality(transactions) = 1

\* C15: a Deposit, Withdraw, Transfer, CreateCard or CreateCredit by a caller
\* who does not own the account (the source account of a transfer) fails, and
\* has queried no rate and written no row; the step that takes a call changes
\* no balance, transaction, card, credit or schedule row, and only calls of
\* owners go on after their entry checks.
OwnerOnly ==
    /\ [](\A r \in BagToSet(history) :
            (r.op \in AccountOps /\ ~ByOwner(r)) =>
                /\ r.outcome \in {"forbidden", "error"}
                /\ r.id = 0
                /\ r.asked = 0)
    /\ [][Starts(AccountOps) =>
            /\ UNCHANGED <<balance, transactions, cards, credits, schedules>>
            /\ \A p \in Clients : Admitted(p) => ByOwner(req'[p])]_vars

\* User 2 asked for a card on account 1, which is user 1's: refused, no card.
OwnerOnlyWitness ==
    /\ Idle
    /\ history = SetToBag({Request("card", 2, 1, 1, 0, 0) @@ [outcome |-> "forbidden"]})
    /\ cards = <<>>
    /\ balance = opening

\* The schedule rows of credit id, in the order of their row ids.
ScheduleOf(id) == {i \in 1..Len(schedules) : schedules[i].credit = id}

\* C16: when CreateCredit has succeeded for a term of n months, the store
\* holds exactly n schedule rows of the new credit, all with the same amount,
\* no penalty and unpaid, and each row is due later than the rows before it.
ScheduleComplete ==
    \A r \in BagToSet(history) :
        (r.op = "credit" /\ r.outcome = "ok") =>
            /\ Cardinality(ScheduleOf(r.id)) = r.term
            /\ \A i, j \in ScheduleOf(r.id) :
                 /\ schedules[i].amount = schedules[j].amount
                 /\ schedules[i].penalty = 0
                 /\ ~schedules[i].paid
                 /\ i < j => schedules[i].date < schedules[j].date

\* A credit over two months was issued: two more schedule rows.
ScheduleCompleteWitness ==
    /\ Idle
    /\ \E r \in Calls("credit", "ok") : r.term = 2 /\ r.id = 2
    /\ Len(credits) = 2
    /\ Len(schedules) = 5

\* The arguments of the CreateCredit r fail "Validate input".
BadCredit(r) == r.amount <= 0 \/ r.term < 1 \/ r.term > 360

\* C17: a CreateCredit with principal <= 0 or a term outside 1..360 fails
\* without a query of the rate provider and without a credit row; the step
\* that takes the call writes no credit and no schedule row, no such call goes
\* on after its entry checks, and arguments inside the limits (terms 1 and 360
\* included) are never refused as invalid.
CreditValidated ==
    /\ [](\A r \in BagToSet(history) :
            r.op = "credit" =>
                /\ BadCredit(r) => /\ r.outcome \in {"invalid", "forbidden", "error"}
                                   /\ r.asked = 0
                                   /\ r.id = 0
                /\ r.outcome = "invalid" => BadCredit(r))
    /\ [][CallStarts =>
            /\ UNCHANGED <<credits, schedules>>
            /\ \A p \in Clients :
                 (Admitted(p) /\ req'[p].op = "credit") => ~BadCredit(req'[p])]_vars

\* The owner of account 1 asked for a credit over 361 months: refused as
\* invalid, the provider was not asked, the store holds the first credit only.
CreditValidatedWitness ==
    /\ Idle
    /\ history = SetToBag({Request("credit", 1, 1, 1, 20000, 361) @@ [outcome |-> "invalid"]})
    /\ credits = <<FirstCredit>>
    /\ Len(schedules) = FirstCredit.term

\* C18: the credit row of a successful CreateCredit carries the rate the
\* provider answered plus 5, the call asked the provider once, and no step
\* changes a credit row that is in the store.
RateFrozen ==
    /\ [](\A r \in Calls("credit", "ok") :
            /\ r.asked = 1
            /\ r.quote \in KeyRates
            /\ credits[r.id].rate = r.quote + 5)
    /\ [](\A p \in Clients : req[p].asked <= 1)
    /\ [][/\ Len(credits') >= Len(credits)
          /\ \A i \in 1..Len(credits) : credits'[i] = credits[i]]_vars

\* Two credits were issued at different answers of the provider; each keeps
\* its own rate.
RateFrozenWitness ==
    /\ Idle
    /\ Len(credits) = 3
    /\ credits[2].rate = 20
    /\ credits[3].rate = 30
    /\ Cardinality(Calls("credit", "ok")) = 2

RECURSIVE Successes(_)
\* The number of service calls on record among the records S.
Successes(S) ==
    IF S = {} THEN 0
    ELSE LET r == CHOOSE x \in S : TRUE IN CopiesIn(r, history) + Successes(S \ {r})

\* The step of goroutine p writes no card, credit or schedule row.
WritesNothing == UNCHANGED <<cards, credits, schedules>>

\* C19: a CreateCredit at its rate query and a CreateCard at its INSERT have
\* persisted nothing yet; the rate query either answers, or the call ends with
\* an error and no row is written; the INSERT of the card either adds the one
\* card row and the call succeeds, or the call ends with an error and no row
\* is written; so the store holds exactly one card row per successful
\* CreateCard.
FailureWritesNothing ==
    /\ [](\A p \in Clients : pc[p] \in {"rate", "card"} => req[p].id = 0)
    /\ [](Len(cards) = Successes(Calls("card", "ok")))
    /\ [][\A p \in Clients :
            /\ (pc[p] = "rate" /\ pc'[p] # "rate") =>
                 /\ WritesNothing
                 /\ \/ pc'[p] = "credit" /\ history' = history
                    \/ /\ pc'[p] = "idle"
                       /\ history' = history (+) SetToBag(
                              {[req[p] EXCEPT !.asked = 1] @@ [outcome |-> "error"]})
            /\ (pc[p] = "card" /\ pc'[p] # "card") =>
                 /\ pc'[p] = "idle"
                 /\ \/ WritesNothing /\ Ended(p, "error")
                    \/ /\ cards' = Append(cards, Head(legs[p]))
                       /\ UNCHANGED <<credits, schedules>>
                       /\ \E r \in BagToSet(history') :
                            /\ r.outcome = "ok"
                            /\ r.id = Len(cards')
                            /\ history' = history (+) SetToBag({r})]_vars

\* An owner's CreateCard was refused by the store: the call failed and there
\* is no card.
FailureWritesNothingWitness ==
    /\ Idle
    /\ history = SetToBag({Request("card", 1, 1, 1, 0, 0) @@ [outcome |-> "error"]})
    /\ cards = <<>>
    /\ calls = 1

\* The value of ASCII digit c.
DigitOf(c) == c - 48

\* The Luhn sum of a string of digits: from the right, every second digit
\* doubled, 9 taken off a double above 9.
RECURSIVE LuhnSum(_, _)
LuhnSum(number, fromRight) ==
    IF number = <<>> THEN 0
    ELSE LET d == DigitOf(number[Len(number)])
             v == IF fromRight % 2 = 1 THEN d
                  ELSE IF 2 * d > 9 THEN 2 * d - 9 ELSE 2 * d
         IN  v + LuhnSum(SubSeq(number, 1, Len(number) - 1), fromRight + 1)

LuhnValid(number) == LuhnSum(number, 1) % 10 = 0

\* C21: the card number every successful CreateCard returns has 16 decimal
\* digits, starts with "400000" and passes the Luhn check.
IssuedNumbersValid ==
    \A r \in Calls("card", "ok") :
        LET number == r.result[1].number IN
        /\ Len(number) = 16
        /\ \A i \in 1..Len(number) : number[i] \in 48..57
        /\ SubSeq(number, 1, 6) = CardPrefix
        /\ LuhnValid(number)

\* The key has none of the lengths AES takes.
WrongLength(key) == Len(key) # 16 /\ Len(key) # 24 /\ Len(key) # 32

\* C22: Encrypt under a key of a length other than 16, 24 or 32 bytes
\* returns an error and no ciphertext, and so does Decrypt: an error and no
\* plaintext.
KeyLengthChecked ==
    /\ (crypto.sealed # NoResult /\ WrongLength(crypto.key)) =>
          crypto.sealed.err # "" /\ crypto.sealed.value = <<>>
    /\ (crypto.reopened # NoResult /\ WrongLength(crypto.other)) =>
          crypto.reopened.err # "" /\ crypto.reopened.value = <<>>

\* A string was encrypted under a key of 32 bytes, and Decrypt was asked to
\* open the ciphertext with a key of 33: it returned the error.
KeyLengthCheckedWitness ==
    /\ Len(crypto.key) = 32
    /\ crypto.sealed.err = ""
    /\ Len(crypto.other) = 33
    /\ crypto.reopened.err = "decryption key must be 16, 24, or 32 bytes"

\* The step ends a ListCards call with the record l.
ListStep(l) == l.op = "list" /\ history' = history (+) SetToBag({l})

\* The page Repository.ListCards returns to the call on record l.
PageOf(l) ==
    SelectCards(l.user, l.account, IF l.limit <= 0 THEN 10 ELSE l.limit,
                IF l.offset < 0 THEN 0 ELSE l.offset)

\* Decrypt fails on the card number or on the expiry of the row.
Undecryptable(row) ==
    \/ Decrypt(row.number, EncryptionKey).err # ""
    \/ Decrypt(row.expiry, EncryptionKey).err # ""

\* C23: a ListCards call whose page holds a card that does not decrypt
\* returns the error and no list; a call that returns a list returns every
\* card of its page, in order, with number and expiry decrypted; a call that
\* fails returns no list.
ListAllOrNothing ==
    [][\A l \in BagToSet(history') :
         ListStep(l) =>
            LET page == PageOf(l) IN
            /\ l.outcome # "ok" => l.result = <<>>
            /\ (l.outcome \in {"ok", "corrupt"} /\ \E k \in 1..Len(page) : Undecryptable(page[k]))
                  => l.outcome = "corrupt"
            /\ l.outcome = "ok" =>
                  /\ Len(l.result) = Len(page)
                  /\ \A k \in 1..Len(page) :
                       /\ l.result[k].id = page[k].id
                       /\ l.result[k].number = Decrypt(page[k].number, EncryptionKey).value
                       /\ l.result[k].expiry = Decrypt(page[k].expiry, EncryptionKey).value]_vars

\* A card was issued, and its owner's ListCards failed on it: no list.
ListAllOrNothingWitness ==
    /\ Idle
    /\ Len(cards) = 1
    /\ Calls("card", "ok") # {}
    /\ \E l \in Calls("list", "corrupt") :
         l.user = accounts[cards[1].account] /\ l.offset = 0 /\ l.result = <<>>

\* C29: once CreateCard has succeeded for an account, a ListCards call of the
\* account's owner (for that account or for all of the owner's, first page of
\* the default size) that the store serves succeeds and returns the card
\* with the number and the expiry CreateCard returned.
ListReturnsIssued ==
    [][\A l \in BagToSet(history') :
         (ListStep(l) /\ l.outcome # "error" /\ l.limit = 0 /\ l.offset = 0) =>
            \A c \in Calls("card", "ok") :
                (l.user = c.user /\ l.account \in {0, c.account}) =>
                    /\ l.outcome = "ok"
                    /\ \E k \in 1..Len(l.result) :
                         /\ l.result[k].id = c.id
                         /\ l.result[k].number = c.result[1].number
                         /\ l.result[k].expiry = c.result[1].expiry]_vars

\* C24: for the annual rate 0 calculateAnnuityPayment returns the principal
\* divided by the number of months, rounded to cents.
ZeroRateFallback ==
    (annuity # NoAnnuity /\ annuity.rate = 0) =>
        annuity.payment =
            10 * Round(FMul(FDiv(Money(annuity.principal), Float64(annuity.term)), Float64(100)))

\* The credit_payment transactions committed for schedule entry i.
PaymentsFor(i) ==
    {t \in BagToSet(transactions) : t.type = "credit_payment" /\ t.ref = i}

\* C25: the entries a sweep gets from GetPendingPayments are unpaid and due
\* in the store it reads; a schedule row changes, and a credit_payment is
\* committed, only for the entry a sweep that fetched it is at; an entry not
\* yet due keeps paid = false, penalty 0 and its amount, and has no
\* transaction.
SweepFrame ==
    /\ [][\A s \in Sweeps :
            (pc[s] = "fetch" /\ pc'[s] = "credit") =>
                \A k \in 1..Len(payments'[s]) :
                    LET e == payments'[s][k] IN
                    /\ ~schedules[e.id].paid
                    /\ schedules[e.id].date <= now
                    /\ e = Scanned(e.id)]_vars
    /\ [][\A i \in 1..Len(schedules) :
            /\ schedules'[i] # schedules[i] =>
                 \E s \in Sweeps : pc[s] \in {"markpaid", "penalty"} /\ Current(s).id = i
            /\ PaymentsFor(i)' # PaymentsFor(i) =>
                 \E s \in Sweeps : pc[s] = "commit" /\ Current(s).id = i]_vars
    /\ [](\A i \in 1..Len(schedules) :
            schedules[i].date > now =>
                /\ ~schedules[i].paid
                /\ schedules[i].penalty = 0
                /\ schedules[i].amount = FirstPayment
                /\ PaymentsFor(i) = {})

\* Two sweeps have run: the entry due first is paid, the entry not yet due is
\* as it was issued.
SweepFrameWitness ==
    /\ Idle
    /\ triggers = 2
    /\ schedules[1].paid
    /\ PaymentsFor(1) # {}
    /\ schedules[3].date > now
    /\ schedules[3] = generatePaymentSchedule(1, FirstCredit, FirstIssue)[3]

\* C26: no step removes a committed transaction or changes one: every row of
\* bank.transactions, with its account, amount and type, is still there after
\* the step, as many times as before.
LedgerAppendOnly ==
    [][\A t \in BagToSet(transactions) :
         CopiesIn(t, transactions') >= CopiesIn(t, transactions)]_vars

\* A ledger call and a sweep have both committed beside the opening deposit.
LedgerAppendOnlyWitness ==
    /\ Idle
    /\ BagCardinality(transactions) >= 3
    /\ Rows("credit_payment") # {}
    /\ Calls("withdraw", "ok") \cup Calls("deposit", "ok") \cup Calls("transfer", "ok") # {}

\* The three-digit strings GenerateCVV returns.
CVVs == {<<a, b, c>> : a \in 48..57, b \in 48..57, c \in 48..57}

\* The hex string is what Encrypt returns for data under the service's key
\* and some IV: 16 bytes of IV, then the CBC encryption of the padded data.
SealedFrom(hexString, data) ==
    LET decoded == HexDecode(hexString) IN
    /\ decoded.err = ""
    /\ Len(decoded.value) = BlockSize + Len(Padded(data))
    /\ LET iv == SubSeq(decoded.value, 1, BlockSize)
       IN  hexString = Encrypt(data, EncryptionKey, iv).value

\* C27: the row of every card CreateCard has issued holds, as card number,
\* what Encrypt returns for the number the call returned, as expiry, what
\* Encrypt returns for the expiry the call returned, each with an IV of its
\* own field, and as CVV a bcrypt hash of a three-digit string; none of the
\* three fields is the plaintext.
CardRowSealed ==
    \A c \in Calls("card", "ok") :
        LET row == cards[c.id]
            plain == c.result[1] IN
        /\ SealedFrom(row.number, plain.number)
        /\ SealedFrom(row.expiry, plain.expiry)
        /\ row.number # plain.number
        /\ row.expiry # plain.expiry
        /\ \E cvv \in CVVs, salt \in RandomBytes : row.cvv = Bcrypt(cvv, <<salt>>)
        /\ row.cvv \notin CVVs

\* A card was issued; number and expiry of its row were sealed under
\* different IVs.
CardRowSealedWitness ==
    /\ Idle
    /\ Len(cards) = 1
    /\ Calls("card", "ok") # {}
    /\ SubSeq(cards[1].number, 1, 2 * BlockSize) # SubSeq(cards[1].expiry, 1, 2 * BlockSize)

RECURSIVE Copies(_)
\* The number of rows of bank.transactions among the rows S.
Copies(S) ==
    IF S = {} THEN 0
    ELSE LET t == CHOOSE x \in S : TRUE IN CopiesIn(t, transactions) + Copies(S \ {t})

\* C28: at most one credit_payment transaction is ever committed for a
\* schedule entry.
SinglePayment == \A i \in 1..Len(schedules) : Copies(PaymentsFor(i)) <= 1

\* C30: no step sets the paid flag of a schedule entry back: an entry that is
\* paid stays paid.
PaidMonotonic ==
    [][\A i \in 1..Len(schedules) : schedules[i].paid => schedules'[i].paid]_vars

RECURSIVE Total(_, _)
\* The sum of the balances b of the accounts S.
Total(b, S) ==
    IF S = {} THEN 0
    ELSE LET a == CHOOSE x \in S : TRUE IN b[a] + Total(b, S \ {a})

\* C31: Transfer conserves money: when only transfers are made, interleaved in
\* any way and whether they succeed or fail, the sum of the balances of all
\* accounts is in every state the sum of the opening balances.
TransferConserves == Total(balance, Accounts) = Total(opening, Accounts)

\* Two transfers were made, one committed and one refused or failed, and money
\* has moved between two accounts.
TransferConservesWitness ==
    /\ Idle
    /\ Calls("transfer", "ok") # {}
    /\ \E r \in BagToSet(history) : r.op = "transfer" /\ r.outcome # "ok"
    /\ balance # opening

\* The account that funds the entry sweep s is at, and what the entry costs.
Funder(s) == credits[Current(s).credit].account
Due(s) == Current(s).amount + Current(s).penalty

\* C32: when sweeps run one at a time and no ledger call is made, a sweep
\* decides on each entry by the balance as the debits of the entries before
\* it have left it: it goes on to the withdrawal only if that balance covers
\* installment + penalty, the debit it commits is covered, and no balance is
\* ever below zero.
SweepRereads ==
    /\ [](\A a \in Accounts : balance[a] >= 0)
    /\ [][\A s \in Sweeps :
            /\ (pc[s] = "balance" /\ pc'[s] = "begin") => balance[Funder(s)] >= Due(s)
            /\ (pc[s] = "commit" /\ balance' # balance) =>
                  /\ balance[Funder(s)] >= Due(s)
                  /\ balance' = [balance EXCEPT ![Funder(s)] = @ - Due(s)]]_vars

\* One sweep has run over two due entries of the same account: the balance
\* covered either entry at the start, the first was paid, and the second was
\* penalised because what the first debit left does not cover it.
SweepRereadsWitness ==
    /\ Idle
    /\ triggers = 1
    /\ opening[1] >= FirstPayment
    /\ schedules[1].paid /\ PaymentsFor(1) # {}
    /\ ~schedules[2].paid /\ PaymentsFor(2) = {}
    /\ schedules[2].penalty = Kept(PenaltyOf(Money(FirstPayment)))
    /\ balance[1] = opening[1] - FirstPayment
    /\ balance[1] < FirstPayment

\* C33: no step changes the installment amount of a schedule entry or lowers
\* its accrued penalty, whether sweeps follow one another or overlap.
PenaltyMonotonic ==
    [][\A i \in 1..Len(schedules) :
          /\ schedules'[i].amount = schedules[i].amount
          /\ schedules'[i].penalty >= schedules[i].penalty]_vars

\* C34: when only credits are issued, no step of a call, one that succeeds or
\* one that fails, changes an account balance or the transactions: the
\* principal is not paid into the funding account.
CreditDisbursesNothing ==
    [][balance' = balance /\ transactions' = transactions]_vars

\* A credit was issued with its schedule and another call failed after its
\* credit row was written; balances are the opening ones.
CreditDisbursesNothingWitness ==
    /\ Idle
    /\ Calls("credit", "ok") # {}
    /\ Calls("credit", "error") # {}
    /\ Len(credits) = 3
    /\ Len(schedules) > Len(generatePaymentSchedule(1, FirstCredit, FirstIssue))
    /\ balance = opening

\* C35: two credits whose (borrower id, funding account id, principal)
\* differ never give the keyed hash the same bytes.
TagInputsDistinct ==
    \A x \in tags, y \in tags :
        <<x.user, x.account, x.amount>> # <<y.user, y.account, y.amount>> => x.data # y.data

\* The errors Decrypt returns.
DecryptErrors ==
    {"decryption key must be 16, 24, or 32 bytes", "failed to decode hex",
     "invalid encrypted data length", "invalid ciphertext length", "invalid padding",
     "invalid padding bytes"}

\* C36: Decrypt returns a plaintext or one of its errors for whatever it is
\* given, the result of Encrypt for the empty string included: it never
\* panics.
DecryptNeverPanics ==
    \A r \in {crypto.opened, crypto.reopened} :
        r = NoResult \/ r.err = "" \/ r.err \in DecryptErrors

\* The call r is a transfer from an account to itself, made by its owner with
\* an amount above 0.
SelfTransfer(r) == r.op = "transfer" /\ r.to = r.account /\ ByOwner(r) /\ r.amount > 0

\* C37: a Transfer from an account to itself by its owner with 0 < amount <=
\* balance is not refused (it ends with success unless a store call fails),
\* and the commit that ends it leaves every balance as it is and adds exactly
\* the transfer_out row of -amount and the transfer_in row of +amount of that
\* account.
SelfTransferNeutral ==
    /\ [](\A r \in BagToSet(history) :
            SelfTransfer(r) => r.outcome \in {"ok", "error", "rollback", "insufficient"})
    /\ [][\A p \in Clients :
            (SelfTransfer(req[p]) /\ Moved(p)) =>
                /\ (pc[p] = "balance" /\ balance[req[p].account] >= req[p].amount) =>
                      ~Ended(p, "insufficient")
                /\ balance' = balance
                /\ Ended(p, "ok") =>
                      transactions' = transactions
                          (+) SetToBag({Transaction(req[p].account, -req[p].amount,
                                                    "transfer_out", req[p].account)})
                          (+) SetToBag({Transaction(req[p].account, req[p].amount,
                                                    "transfer_in", req[p].account)})
                /\ ~Ended(p, "ok") => transactions' = transactions]_vars

\* The owner of account 1 has transferred 5000 from it to itself and nothing
\* else was called: the balance is the opening one and the two rows are there.
SelfTransferNeutralWitness ==
    /\ Idle
    /\ history = SetToBag({Request("transfer", 1, 1, 1, 5000, 0) @@ [outcome |-> "ok"]})
    /\ balance = opening
    /\ CopiesIn(Transaction(1, -5000, "transfer_out", 1), transactions) = 1
    /\ CopiesIn(Transaction(1, 5000, "transfer_in", 1), transactions) = 1
    /\ BagCardinality(transactions) = 3

====
